---- MODULE Spec2Model ----
(***************************************************************************)
(* A model of the agent runtime of IntentFlow's query engine               *)
(* (src-tauri/src/services/query_engine.rs): scope stamping, tool          *)
(* execution, the retry/broadening wrapper, the parallel dispatcher and    *)
(* the multi-turn agent loop with its evidence gate.                       *)
(*                                                                         *)
(* JSON values are records.  An object carries json |-> "object" and its   *)
(* members as further fields (an absent member is an absent field); the    *)
(* JSON null carries json |-> "null".  Texts are sequences of lower-case   *)
(* phrases; substring tests are made phrase by phrase with SubstrTable.    *)
(***************************************************************************)
EXTENDS Integers, Sequences, FiniteSets, TLC

\* ─── Constants ───

MAX_TURNS == 20
MAX_TOOL_RETRY_LOOPS == 3

DaySecs == 86400
HourSecs == 3600

\* The clock reading of a run (Utc::now().timestamp()), fixed for the run.
Now == 3506000

\* Bounds of the model.
MaxToolCalls == 2

Max(a, b) == IF a >= b THEN a ELSE b
Min(a, b) == IF a <= b THEN a ELSE b

\* ─── JSON helpers (serde_json::Value) ───

JsonNull == [json |-> "null"]
EmptyObject == [json |-> "object"]

IsObject(v) == v.json = "object"
Has(v, k) == IsObject(v) /\ k \in DOMAIN v
Put(v, k, x) == [f \in DOMAIN v \cup {k} |-> IF f = k THEN x ELSE v[f]]

\* args["k"].as_u64(): None for a missing member and for a negative number.
AsU64(v, k, default) == IF Has(v, k) /\ v[k] >= 0 THEN v[k] ELSE default
HasI64(v, k) == Has(v, k)
AsI64(v, k, default) == IF Has(v, k) THEN v[k] ELSE default

\* ─── Texts ───

\* <<needle, phrase>>: needle is a proper substring of phrase.
SubstrTable ==
    { <<"no ocr", "no ocr results found for">>,
      <<"no ocr", "no ocr snippets found">>,
      <<".rs", "main.rs">>, <<".rs", "src/lib.rs">>,
      <<"chat", "chat with sam">>,
      <<"spotify", "spotify.exe">>, <<"music", "youtube music">>,
      <<"youtube", "youtube music">>, <<"youtube music", "youtube music">>,
      <<"tool_call_begin", "<|tool_call_begin|>">>,
      <<"<|tool_", "<|tool_call_begin|>">>, <<"<|tool_", "<|tool_call_end|>">>,
      <<"texted", "you texted sam">>,
      <<"telegram", "you spoke with sam on telegram">> }

PhraseContains(phrase, needle) == phrase = needle \/ <<needle, phrase>> \in SubstrTable
TextContains(text, needle) == \E i \in DOMAIN text : PhraseContains(text[i], needle)
TextContainsAny(text, needles) == \E n \in needles : TextContains(text, n)

\* A word sequence occurs in another (str::contains on lower-cased text).
WordsContain(hay, needle) ==
    \E off \in 0..(Len(hay) - Len(needle)) :
        \A i \in 1..Len(needle) : hay[off + i] = needle[i]

SeqFilterOut(s, bad) == SelectSeq(s, LAMBDA x : x \notin bad)

Take(s, n) == IF n >= Len(s) THEN s ELSE SubSeq(s, 1, Max(n, 0))

\* ─── Time scope ───

\* str::trim().to_lowercase() on the scope tokens of the model.
NormalizeScope(token) ==
    CASE token \in {"", "  "} -> ""
      [] token = " Yesterday " -> "yesterday"
      [] token = "ALL_TIME" -> "all_time"
      [] OTHER -> token

\* Local::now().date_naive() at 00:00:00 and 23:59:59, days_ago days back, or
\* <<>> (None) when from_local_datetime(..).single() has no answer.  local_now
\* is the reading of Local::now(); the local zone of the model is UTC.
local_day_bounds_at(days_ago, local_now, single_ok) ==
    IF ~single_ok THEN <<>>
    ELSE <<(local_now - (local_now % DaySecs)) - days_ago * DaySecs,
           (local_now - (local_now % DaySecs)) - days_ago * DaySecs + DaySecs - 1>>

\* 1 January, 00:00:00, of the year of local_now: the day of the run is
\* 31 January.
YearStartAt(local_now) == local_now - (local_now % DaySecs) - 30 * DaySecs

\* local_day_bounds(days_ago).map(|(s, _)| s).unwrap_or(fallback)
StartOr(bounds, fallback) == IF bounds = <<>> THEN fallback ELSE bounds[1]

\* resolve_time_scope with its readings of the clock: now is
\* chrono::Utc::now().timestamp() (line 788), local_now the later Local::now()
\* of local_day_bounds and of the this_year arm.  explicit_scope is <<>>
\* (None) or <<token>>.
resolve_time_scope_at(explicit_scope, now, local_now, single_ok) ==
    LET scope_id == IF explicit_scope # <<>> /\ NormalizeScope(explicit_scope[1]) # ""
                    THEN NormalizeScope(explicit_scope[1]) ELSE "today"
    IN  CASE scope_id = "yesterday" ->
                [id |-> scope_id, label |-> "Yesterday",
                 start_ts |-> StartOr(local_day_bounds_at(1, local_now, single_ok),
                                      now - DaySecs),
                 end_ts |-> IF local_day_bounds_at(1, local_now, single_ok) = <<>> THEN now
                            ELSE local_day_bounds_at(1, local_now, single_ok)[2]]
          [] scope_id = "last_3_days" ->
                [id |-> scope_id, label |-> "Last 3 Days",
                 start_ts |-> StartOr(local_day_bounds_at(2, local_now, single_ok),
                                      now - 3 * DaySecs),
                 end_ts |-> now]
          [] scope_id = "last_7_days" ->
                [id |-> scope_id, label |-> "Last 7 Days",
                 start_ts |-> StartOr(local_day_bounds_at(6, local_now, single_ok),
                                      now - 7 * DaySecs),
                 end_ts |-> now]
          [] scope_id = "last_30_days" ->
                [id |-> scope_id, label |-> "Last 30 Days",
                 start_ts |-> StartOr(local_day_bounds_at(29, local_now, single_ok),
                                      now - 30 * DaySecs),
                 end_ts |-> now]
          [] scope_id = "this_year" ->
                [id |-> scope_id, label |-> "This Year",
                 start_ts |-> IF single_ok THEN YearStartAt(local_now)
                              ELSE now - 365 * DaySecs,
                 end_ts |-> now]
          [] scope_id = "all_time" ->
                [id |-> scope_id, label |-> "All Time", start_ts |-> 0, end_ts |-> now]
          [] OTHER ->
                [id |-> "today", label |-> "Today",
                 start_ts |-> StartOr(local_day_bounds_at(0, local_now, single_ok),
                                      now - DaySecs),
                 end_ts |-> now]

\* The same for a query at Now whose clock readings agree and whose local
\* conversion succeeds.
local_day_bounds(days_ago) == local_day_bounds_at(days_ago, Now, TRUE)
YearStart == YearStartAt(Now)
resolve_time_scope(explicit_scope) ==
    resolve_time_scope_at(<<explicit_scope>>, Now, Now, TRUE)

InScope(scope, ts) == scope.start_ts <= ts /\ ts <= scope.end_ts

\* ─── Queries ───

\* The user queries of the model and, for each, the needles of the engine's
\* keyword tests that occur in its lower-cased text.
Queries == {"hi", "who is my crush", "what did i do", "top apps this week",
            "everything today", "summary of my code", "summarize my whole year",
            "my crush"}

QueryNeedles(q) ==
    CASE q = "hi" -> {}
      [] q = "who is my crush" -> {"who", "who is", "crush"}
      [] q = "what did i do" -> {"what did i do", "what did", "did i"}
      [] q = "top apps this week" -> {"top", "this week"}
      [] q = "everything today" -> {"everything", "ever", "today"}
      [] q = "summary of my code" -> {"summary", "code"}
      [] q = "summarize my whole year" -> {"who"}
      [] q = "my crush" -> {"crush"}
      [] q = "recap of chat and music" -> {"recap", "chat", "music"}
      [] q = "summary of code chat music" -> {"summary", "code", "chat", "music"}
      [] OTHER -> {}

QueryContains(q, needle) == needle \in QueryNeedles(q)
QueryContainsAny(q, needles) == QueryNeedles(q) \cap needles # {}

detect_query_intent(q) ==
    LET wants_music == QueryContainsAny(q, {"song", "music", "spotify", "hearing", "listen"})
        wants_ocr == QueryContainsAny(q, {"ocr", "whatsapp", "chat", "text", "instagram"})
        wants_files == QueryContainsAny(q, {"file", "code", "project", "document", "change"})
        wants_timeline == QueryContainsAny(q, {"timeline", "what did i do", "activity",
                                               "summary", "overview"})
    IN  [wants_music |-> wants_music,
         wants_ocr |-> wants_ocr,
         wants_files |-> wants_files,
         wants_timeline |-> wants_timeline,
         broad_summary |->
            \/ QueryContainsAny(q, {"full summary", "don't leave anything",
                                    "dont leave anything", "everything", "today",
                                    "yesterday", "this year", "yearly", "annual"})
            \/ (wants_timeline /\ (wants_ocr \/ wants_files \/ wants_music))]

\* ─── The activity store ───

\* Rows of activities and code_file_events.  media_title is "" for a row
\* without media_info; screen_text is <<>> for a row without OCR text.
ActCode ==
    [app_name |-> "code", window_title |-> "main.rs", start_time |-> Now - 3600,
     duration_seconds |-> 600, category_id |-> 1,
     media_title |-> "", media_artist |-> "", screen_text |-> <<"fn", "main">>]
ActMusic ==
    [app_name |-> "spotify.exe", window_title |-> "song a", start_time |-> Now - 1800,
     duration_seconds |-> 200, category_id |-> 4,
     media_title |-> "song a", media_artist |-> "band", screen_text |-> <<>>]
ActChat ==
    [app_name |-> "whatsapp", window_title |-> "chat with sam",
     start_time |-> Now - 3 * DaySecs, duration_seconds |-> 300, category_id |-> 3,
     media_title |-> "", media_artist |-> "", screen_text |-> <<"hello", "sam">>]
\* The row a model-written REPLACE statement adds.
ActInjected ==
    [app_name |-> "injected", window_title |-> "injected", start_time |-> Now - 60,
     duration_seconds |-> 1, category_id |-> 7,
     media_title |-> "", media_artist |-> "", screen_text |-> <<>>]

FileLib ==
    [path |-> "src/lib.rs", project_root |-> "repo", entity_type |-> "file",
     change_type |-> "modified", detected_at |-> Now - 7200]

SampleDb == [activities |-> {ActCode, ActMusic, ActChat}, code_file_events |-> {FileLib}]

\* A store with a longer history: HistoryApps more applications, each used
\* once two days before the run with a page of notes on the screen.
HistoryApps ==
 <<
    "app01.exe", "app02.exe", "app03.exe", "app04.exe", "app05.exe", "app06.exe",
    "app07.exe", "app08.exe", "app09.exe", "app10.exe", "app11.exe", "app12.exe",
    "app13.exe", "app14.exe", "app15.exe", "app16.exe", "app17.exe", "app18.exe",
    "app19.exe", "app20.exe", "app21.exe", "app22.exe", "app23.exe", "app24.exe" >>
ActHistory(i) ==
    [app_name |-> HistoryApps[i], window_title |-> "quarterly planning notes - editor",
     start_time |-> Now - 2 * DaySecs - 60 * i, duration_seconds |-> 60 + i,
     category_id |-> 1 + (i % 7), media_title |-> "", media_artist |-> "",
     screen_text |-> <<HistoryApps[i], "shows a page of meeting notes and action items">>]
LongHistoryDb ==
    [activities |-> SampleDb.activities \cup {ActHistory(i) : i \in DOMAIN HistoryApps},
     code_file_events |-> {FileLib}]
EmptyDb == [activities |-> {}, code_file_events |-> {}]

HasMetadata(row) == row.media_title # "" \/ row.screen_text # <<>>

\* ORDER BY <time> DESC over a set of rows.
RECURSIVE OrderDesc(_, _)
OrderDesc(rows, key) ==
    IF rows = {} THEN <<>>
    ELSE LET top == CHOOSE r \in rows : \A o \in rows : r[key] >= o[key]
         IN  <<top>> \o OrderDesc(rows \ {top}, key)

RowsIn(rows, key, lo, hi) == {r \in rows : lo <= r[key] /\ r[key] <= hi}

\* ─── Scope stamping ───

\* DateTime::to_rfc3339 / parse_iso_to_unix: a timestamp text is <<format, seconds>>.
to_rfc3339(ts) == <<"rfc3339", ts>>
NoTs == -1
parse_iso_to_unix(iso) ==
    IF iso[1] \in {"rfc3339", "naive"} THEN iso[2] ELSE NoTs

ScopeSpanHours(scope) ==
    Max((Max(scope.end_ts - scope.start_ts, 0) + 3599) \div HourSecs, 1)

StampDataTool(tool, args, scope, q) ==
    LET a1 == Put(args, "start_ts", scope.start_ts)
        a2 == Put(a1, "end_ts", scope.end_ts)
        a3 == Put(a2, "scope_label", scope.label)
        a4 == Put(a3, "hours", ScopeSpanHours(scope))
        a5 == IF tool = "get_recent_activities" /\ ~detect_query_intent(q).wants_music
              THEN Put(a4, "exclude_media_noise", TRUE) ELSE a4
    IN  IF tool = "get_usage_stats"
        THEN Put(Put(a5, "start_time_iso", to_rfc3339(scope.start_ts)),
                 "end_time_iso", to_rfc3339(scope.end_ts))
        ELSE a5

\* One element of args.calls of a parallel_search: a record with the optional
\* members tool and args.
CallTool(call) == IF "tool" \in DOMAIN call THEN call.tool ELSE ""
CallArgs(call) == IF "args" \in DOMAIN call THEN call.args ELSE EmptyObject

RECURSIVE enforce_tool_args_with_scope(_, _, _, _)
enforce_tool_args_with_scope(tool, args, scope, q) ==
    IF ~IsObject(args) THEN args
    ELSE IF tool = "parallel_search"
    THEN IF Has(args, "calls")
         THEN Put(args, "calls",
                  [i \in DOMAIN args.calls |->
                      LET call == args.calls[i]
                      IN  [f \in DOMAIN call \cup {"args"} |->
                              IF f # "args" THEN call[f]
                              ELSE enforce_tool_args_with_scope(
                                       CallTool(call), CallArgs(call), scope, q)]])
         ELSE args
    ELSE StampDataTool(tool, args, scope, q)

resolve_window_from_args(args, default_hours) ==
    LET hours == AsU64(args, "hours", default_hours)
        s0 == AsI64(args, "start_ts", Now - hours * HourSecs)
        e0 == AsI64(args, "end_ts", Now)
        e1 == IF e0 <= 0 THEN Now ELSE e0
        s1 == IF s0 < 0 THEN 0 ELSE s0
    IN  IF s1 > e1 THEN <<e1, s1>> ELSE <<s1, e1>>

\* ─── Tool execution ───

Ok(output, activities, db, read) ==
    [ok |-> TRUE, output |-> output, activities |-> activities, db |-> db,
     read |-> read, err |-> ""]
Err(msg, db) ==
    [ok |-> FALSE, output |-> <<>>, activities |-> <<>>, db |-> db, read |-> {},
     err |-> msg]

Times(rows, key) == {rows[i][key] : i \in DOMAIN rows}

\* The reference the chat UI shows for an activity row.
ActivityRef(row, media) ==
    [app |-> row.app_name, title |-> row.window_title, time |-> row.start_time,
     media |-> media]

is_media_noise_event(row) ==
    /\ row.media_title # ""
    /\ ~(\E n \in {"spotify", "youtube", "music"} : PhraseContains(row.app_name, n))

\* sanitize_ocr_for_query / looks_like_gibberish on a word sequence: texts of
\* NoiseTexts are capture noise and come back empty.
NoiseTexts == {<<"##@@$$%%^^&&**(())">>}
sanitize_ocr_for_query(text) == IF text \in NoiseTexts THEN <<>> ELSE text

\* The text CAST(metadata AS TEXT) is matched against.
MetadataText(row) ==
    row.screen_text \o
        (IF row.media_title # "" THEN <<row.media_title, row.media_artist>> ELSE <<>>)

\* get_music_history: scan, keep songs, drop repeats, stop at the limit.
RECURSIVE MusicScan(_, _, _, _)
MusicScan(rows, seen, results, limit) ==
    IF rows = <<>> THEN results
    ELSE LET r == Head(rows)
             is_spotify == PhraseContains(r.app_name, "spotify")
             has_media == r.media_title # ""
             is_song == r.media_title # "" /\ r.media_artist # ""
             song_key == <<r.media_title, r.media_artist>>
             include == (is_spotify /\ has_media) \/ (has_media /\ is_song)
         IN  IF include /\ song_key \notin seen
             THEN IF Len(results) + 1 >= limit
                  THEN Append(results, r)
                  ELSE MusicScan(Tail(rows), seen \cup {song_key}, Append(results, r), limit)
             ELSE MusicScan(Tail(rows), seen, results, limit)

\* search_ocr / get_recent_ocr: keep rows whose cleaned text matches, drop
\* repeated snippets, stop at the limit.
RECURSIVE OcrScan(_, _, _, _, _, _)
OcrScan(rows, seen, results, limit, app_filter, keyword) ==
    IF rows = <<>> THEN results
    ELSE LET r == Head(rows)
             cleaned == sanitize_ocr_for_query(r.screen_text)
             keep == /\ ~PhraseContains(r.app_name, "intentflow")
                     /\ cleaned # <<>>
                     /\ (app_filter = "" \/ PhraseContains(r.app_name, app_filter))
                     /\ (keyword = <<>> \/ WordsContain(cleaned, keyword))
                     /\ cleaned \notin seen
         IN  IF keep
             THEN IF Len(results) + 1 >= limit
                  THEN Append(results, r)
                  ELSE OcrScan(Tail(rows), seen \cup {cleaned}, Append(results, r), limit,
                               app_filter, keyword)
             ELSE OcrScan(Tail(rows), seen, results, limit, app_filter, keyword)

RECURSIVE RowTokens(_)
RowTokens(rows) ==
    IF rows = <<>> THEN <<>>
    ELSE <<Head(rows).app_name, Head(rows).window_title>> \o RowTokens(Tail(rows))

RECURSIVE OcrTokens(_)
OcrTokens(rows) ==
    IF rows = <<>> THEN <<>>
    ELSE <<Head(rows).app_name>> \o Head(rows).screen_text \o OcrTokens(Tail(rows))

RECURSIVE FileTokens(_)
FileTokens(rows) ==
    IF rows = <<>> THEN <<>>
    ELSE <<Head(rows).change_type, Head(rows).path, Head(rows).project_root>>
             \o FileTokens(Tail(rows))

\* A statement passed to query_activities: its leading keyword as written and
\* the start_time window of its WHERE clause.
Sql(verb, shape, lo, hi) == [verb |-> verb, shape |-> shape, lo |-> lo, hi |-> hi]
to_uppercase(word) ==
    CASE word \in {"select", "SELECT"} -> "SELECT"
      [] word \in {"delete", "DELETE"} -> "DELETE"
      [] word \in {"replace", "REPLACE"} -> "REPLACE"
      [] OTHER -> word

\* SUM(duration_seconds) over a set of rows.
RECURSIVE TotalSeconds(_)
TotalSeconds(S) ==
    IF S = {} THEN 0
    ELSE LET r == CHOOSE x \in S : TRUE IN r.duration_seconds + TotalSeconds(S \ {r})

\* strftime('%Y-%m', ...) of a timestamp: the day of the run is 31 January.
MonthOf(ts) == IF ts >= YearStart THEN "0001-01" ELSE "0000-12"

\* GROUP BY month, category_id ORDER BY month DESC, total_seconds DESC.
MonthGroups(hit, month) ==
    OrderDesc({[month |-> month, category_id |-> c,
                total_seconds |-> TotalSeconds({r \in hit : /\ MonthOf(r.start_time) = month
                                                            /\ r.category_id = c}),
                events |-> Cardinality({r \in hit : /\ MonthOf(r.start_time) = month
                                                    /\ r.category_id = c})] :
                 c \in {r.category_id : r \in {x \in hit : MonthOf(x.start_time) = month}}},
              "total_seconds")

\* GROUP BY app_name ORDER BY total_seconds DESC.
AppGroups(hit) ==
    OrderDesc({[app_name |-> a,
                total_seconds |-> TotalSeconds({r \in hit : r.app_name = a}),
                events |-> Cardinality({r \in hit : r.app_name = a})] :
                 a \in {r.app_name : r \in hit}},
              "total_seconds")

\* The rows a SELECT returns, by the columns and grouping of the statement.
SelectRows(hit, shape) ==
    CASE shape = "monthly_category" ->
            Take(MonthGroups(hit, "0001-01") \o MonthGroups(hit, "0000-12"), 600)
      [] shape = "top_apps" -> Take(AppGroups(hit), 40)
      [] OTHER -> OrderDesc(hit, "start_time")

\* What SQLite does when the prepared statement is stepped through; read is
\* the start_time of the rows the statement went over.
RunStatement(db, sql) ==
    LET verb == to_uppercase(sql.verb)
        hit == RowsIn(db.activities, "start_time", sql.lo, sql.hi)
    IN  CASE verb = "SELECT" ->
                [db |-> db, rows |-> SelectRows(hit, sql.shape),
                 read |-> {r.start_time : r \in hit}]
          [] verb = "DELETE" ->
                [db |-> [db EXCEPT !.activities = @ \ hit], rows |-> <<>>, read |-> {}]
          [] verb = "REPLACE" ->
                [db |-> [db EXCEPT !.activities = @ \cup {ActInjected}], rows |-> <<>>,
                 read |-> {}]
          [] OTHER -> [db |-> db, rows |-> <<>>, read |-> {}]

\* A column of a result row, or the default where the statement has no such
\* column.
Column(row, name, default) == IF name \in DOMAIN row THEN row[name] ELSE default

\* serde_json::to_string of the rows of a statement, one object per row.
RECURSIVE StatementTokens(_)
StatementTokens(rows) ==
    IF rows = <<>> THEN <<>>
    ELSE (IF "month" \in DOMAIN Head(rows)
          THEN <<"{\"category_id\":0,\"events\":0,\"month\":\"", Head(rows).month,
                 "\",\"total_seconds\":0}">>
          ELSE IF "events" \in DOMAIN Head(rows)
          THEN <<"{\"app_name\":\"", Head(rows).app_name,
                 "\",\"events\":0,\"total_seconds\":0}">>
          ELSE <<Head(rows).app_name, Head(rows).window_title>>)
         \o StatementTokens(Tail(rows))

\* GROUP BY app_name ORDER BY total_dur DESC over a set of rows.
AppTotal(rows, app) ==
    LET RECURSIVE Sum(_)
        Sum(S) == IF S = {} THEN 0
                  ELSE LET r == CHOOSE x \in S : TRUE
                       IN  r.duration_seconds + Sum(S \ {r})
    IN  Sum({r \in rows : r.app_name = app})
UsageRows(rows) ==
    OrderDesc({[app |-> a, total_seconds |-> AppTotal(rows, a)] :
                  a \in {r.app_name : r \in rows}}, "total_seconds")
RECURSIVE UsageTokens(_)
UsageTokens(rows) ==
    IF rows = <<>> THEN <<>>
    ELSE <<"{\"app\":\"", Head(rows).app, "\",\"count\":0,\"total_seconds\":0}">>
             \o UsageTokens(Tail(rows))

execute_tool(db, tool, args) ==
    CASE tool = "get_music_history" ->
            LET limit == AsU64(args, "limit", 100)
                hours == AsU64(args, "hours", 24)
                scan_limit == Max(limit * 20, 500)
                win == resolve_window_from_args(args, hours)
                rows == Take(OrderDesc({r \in RowsIn(db.activities, "start_time",
                                                     win[1], win[2]) : HasMetadata(r)},
                                       "start_time"), scan_limit)
                results == MusicScan(rows, {}, <<>>, limit)
                label == IF Has(args, "scope_label") THEN args.scope_label
                         ELSE "the selected time range"
            IN  Ok(IF results = <<>>
                   THEN <<"no music activity found", "in the specified time range.">>
                   ELSE <<"here are the songs you've listened to in", label>>
                            \o RowTokens(results),
                   [i \in DOMAIN results |-> ActivityRef(results[i], results[i].media_title)],
                   db, Times(rows, "start_time"))
      [] tool = "get_recent_activities" ->
            LET limit == AsU64(args, "limit", 100)
                hours == AsU64(args, "hours", 24)
                exclude == Has(args, "exclude_media_noise") /\ args.exclude_media_noise
                win == resolve_window_from_args(args, hours)
                hit == RowsIn(db.activities, "start_time", win[1], win[2])
                rows == Take(OrderDesc(IF Has(args, "category_id")
                                       THEN {r \in hit : r.category_id = args.category_id}
                                       ELSE hit, "start_time"), limit)
                events == IF exclude
                          THEN SeqFilterOut(rows, {r \in hit : is_media_noise_event(r)})
                          ELSE rows
                label == IF Has(args, "scope_label") THEN args.scope_label
                         ELSE "the selected time range"
            IN  Ok(IF events = <<>>
                   THEN <<"no activity events found", "in the selected time range.">>
                   ELSE <<"here are your recent activity events from", label>>
                            \o RowTokens(events),
                   [i \in DOMAIN events |-> ActivityRef(events[i], events[i].media_title)],
                   db, Times(rows, "start_time"))
      [] tool = "get_recent_file_changes" ->
            LET limit == AsU64(args, "limit", 40)
                hours == AsU64(args, "hours", 24)
                win == resolve_window_from_args(args, hours)
                hit == RowsIn(db.code_file_events, "detected_at", win[1], win[2])
                changes == Take(OrderDesc(IF Has(args, "change_type")
                                          THEN {r \in hit : r.change_type = args.change_type}
                                          ELSE hit, "detected_at"), limit)
                label == IF Has(args, "scope_label") THEN args.scope_label
                         ELSE "the selected time range"
            IN  Ok(IF changes = <<>>
                   THEN <<"no file changes found", "in the selected time range.">>
                   ELSE <<"recent file changes", label>> \o FileTokens(changes),
                   changes, db, Times(changes, "detected_at"))
      [] tool = "resolve_query_scope" ->
            LET suggested == IF Has(args, "suggested_scope") THEN args.suggested_scope
                             ELSE "last_7_days"
                reason == IF Has(args, "reason") THEN args.reason
                          ELSE "your query requires a wider search range."
            IN  Ok(<<"scope change requested", suggested, reason>>,
                   <<[kind |-> "confirm_scope_or_sources", reason |-> reason,
                      suggested_time_range |-> suggested, retry_message |-> ""]>>,
                   db, {})
      [] tool = "query_activities" ->
            IF ~(Has(args, "query") \/ Has(args, "sql"))
            THEN Err("Missing 'query' argument", db)
            ELSE LET sql == IF Has(args, "query") THEN args.query ELSE args.sql
                     upper == to_uppercase(sql.verb)
                 IN  IF upper \in {"DELETE", "UPDATE", "DROP", "INSERT"}
                     THEN Err("Only SELECT queries are allowed.", db)
                     ELSE LET run == RunStatement(db, sql)
                          IN  Ok(IF run.rows = <<>> THEN <<"[]">>
                                 ELSE <<"[">> \o StatementTokens(run.rows) \o <<"]">>,
                                 run.rows, run.db, run.read)
      [] tool = "search_ocr" ->
            IF ~Has(args, "keyword")
            THEN Err("Missing keyword", db)
            ELSE LET keyword == args.keyword
                     limit == AsU64(args, "limit", 100)
                     hours == AsU64(args, "hours", 24)
                     win == resolve_window_from_args(args, hours)
                     rows == OrderDesc({r \in RowsIn(db.activities, "start_time",
                                                     win[1], win[2]) :
                                           WordsContain(MetadataText(r), keyword)},
                                       "start_time")
                     matches == OcrScan(rows, {}, <<>>, limit, "", keyword)
                 IN  Ok(IF matches = <<>>
                        THEN <<"no ocr results found for">> \o keyword
                        ELSE <<"found ocr matches for">> \o keyword \o OcrTokens(matches),
                        matches, db, Times(rows, "start_time"))
      [] tool = "get_recent_ocr" ->
            LET limit == AsU64(args, "limit", 100)
                hours == AsU64(args, "hours", 24)
                app_filter == IF Has(args, "app") THEN args.app ELSE ""
                keyword == IF Has(args, "keyword") THEN args.keyword ELSE <<>>
                win == resolve_window_from_args(args, hours)
                scan_limit == Max(limit * 50, 10000)
                rows == Take(OrderDesc({r \in RowsIn(db.activities, "start_time",
                                                     win[1], win[2]) :
                                           /\ HasMetadata(r)
                                           /\ (app_filter = ""
                                               \/ PhraseContains(r.app_name, app_filter))
                                           /\ (keyword = <<>>
                                               \/ WordsContain(MetadataText(r), keyword))},
                                       "start_time"), scan_limit)
                results == OcrScan(rows, {}, <<>>, limit, app_filter, keyword)
                label == IF Has(args, "scope_label") THEN args.scope_label
                         ELSE "the selected time range"
            IN  Ok(IF results = <<>>
                   THEN <<"no ocr snippets found", "in the selected time range.">>
                   ELSE <<"recent ocr snippets", label>> \o OcrTokens(results),
                   [i \in DOMAIN results |-> ActivityRef(results[i], "")],
                   db, Times(rows, "start_time"))
      [] tool = "get_usage_stats" ->
            LET s0 == IF Has(args, "start_time_iso")
                      THEN parse_iso_to_unix(args.start_time_iso) ELSE NoTs
                e0 == IF Has(args, "end_time_iso")
                      THEN parse_iso_to_unix(args.end_time_iso) ELSE NoTs
                s_ts == IF s0 = NoTs THEN 0 ELSE s0
                e_ts == IF e0 = NoTs THEN Now ELSE e0
                hit == RowsIn(db.activities, "start_time", s_ts, e_ts)
                results == Take(UsageRows(hit), 20)
            IN  Ok(IF results = <<>> THEN <<"[]">>
                   ELSE <<"[">> \o UsageTokens(results) \o <<"]">>,
                   results, db, {r.start_time : r \in hit})
      [] tool = "query_history" -> Err("Use query_activities instead", db)
      [] OTHER -> Err("Unknown tool", db)

\* ─── Retry / broadening wrapper ───

is_low_signal_result(tool, output, activities) ==
    /\ activities = <<>>
    /\ \/ output = <<"[]">>
       \/ CASE tool = "get_music_history" -> TextContains(output, "no music activity found")
            [] tool = "get_recent_activities" ->
                  TextContains(output, "no activity events found")
            [] tool = "get_recent_file_changes" ->
                  TextContains(output, "no file changes found")
            [] tool \in {"search_ocr", "get_recent_ocr"} ->
                  TextContains(output, "no ocr") \/ TextContains(output, "no matches")
            [] tool = "query_activities" ->
                  TextContains(output, "[]") \/ TextContains(output, "no rows")
            [] OTHER -> FALSE

\* broaden_tool_args without the fixed-window test: the lookback is doubled
\* for stamped calls too.
broaden_tool_args_unfixed(tool, args, attempt) ==
    IF ~IsObject(args) THEN args
    ELSE LET limit == AsU64(args, "limit", 20)
             hours == AsU64(args, "hours", 24)
         IN  CASE tool \in {"get_music_history", "get_recent_activities",
                            "get_recent_ocr", "get_recent_file_changes"} ->
                    Put(Put(args, "limit", Min(limit + 20, 250)),
                        "hours", Min(hours * 2, 168))
               [] tool = "search_ocr" ->
                    LET a1 == Put(args, "limit", Min(limit + 20, 200))
                    IN  IF attempt = 1 /\ Has(args, "keyword") /\ Len(args.keyword) > 1
                        THEN Put(a1, "keyword", <<Head(args.keyword)>>)
                        ELSE a1
               [] OTHER -> args

broaden_tool_args(tool, args, attempt) ==
    IF ~IsObject(args) THEN args
    ELSE LET limit == AsU64(args, "limit", 20)
             hours == AsU64(args, "hours", 24)
             has_fixed_window == HasI64(args, "start_ts") /\ HasI64(args, "end_ts")
         IN  CASE tool \in {"get_music_history", "get_recent_activities",
                            "get_recent_ocr", "get_recent_file_changes"} ->
                    LET a1 == Put(args, "limit", Min(limit + 20, 250))
                    IN  IF ~has_fixed_window
                        THEN Put(a1, "hours", Min(hours * 2, 168))
                        ELSE a1
               [] tool = "search_ocr" ->
                    LET a1 == Put(args, "limit", Min(limit + 20, 200))
                    IN  IF attempt = 1 /\ Has(args, "keyword") /\ Len(args.keyword) > 1
                        THEN Put(a1, "keyword", <<Head(args.keyword)>>)
                        ELSE a1
               [] OTHER -> args

\* execute_tool_with_retries from attempt `attempt` on: the result of the
\* attempt that ends the loop, the attempts used and the store left behind.
\* RetryVerdict with an error treated like a low-signal result.
RetryVerdict_swallow(tool, r, attempt, loops) ==
    IF attempt = loops THEN (IF r.ok THEN "return" ELSE "error")
    ELSE IF r.ok /\ ~is_low_signal_result(tool, r.output, r.activities)
    THEN "return"
    ELSE "again"

\* What the loop body does with the outcome of one execution.
RetryVerdict(tool, r, attempt, loops) ==
    IF ~r.ok THEN "error"
    ELSE IF attempt = loops \/ ~is_low_signal_result(tool, r.output, r.activities)
    THEN "return"
    ELSE "again"

\* The loop of the wrapper from one attempt on; read collects the timestamps
\* of the rows the executions returned.
RECURSIVE RetryFrom(_, _, _, _, _, _)
RetryStep(r, tool, args, attempt, loops, read) ==
    CASE RetryVerdict(tool, r, attempt, loops) = "error" ->
            [r EXCEPT !.read = read] @@ [attempts |-> attempt, args |-> args]
      [] RetryVerdict(tool, r, attempt, loops) = "return" ->
            [r EXCEPT !.read = read \cup r.read] @@ [attempts |-> attempt, args |-> args]
      [] OTHER ->
            RetryFrom(r.db, tool, broaden_tool_args(tool, args, attempt), attempt + 1,
                      loops, read \cup r.read)
RetryFrom(db, tool, args, attempt, loops, read) ==
    RetryStep(execute_tool(db, tool, args), tool, args, attempt, loops, read)

execute_tool_with_retries(db, tool, args, max_loops) ==
    RetryFrom(db, tool, args, 1, Max(max_loops, 1), {})

\* ─── Records for the chat UI ───

\* The characters of a text: those of its phrases and one separator after
\* each phrase.
RECURSIVE CharsBetween(_, _, _)
CharsBetween(text, lo, hi) ==
    IF lo > hi THEN 0
    ELSE IF lo = hi THEN Len(text[lo]) + 1
    ELSE CharsBetween(text, lo, (lo + hi) \div 2)
            + CharsBetween(text, (lo + hi) \div 2 + 1, hi)
TextLen(text) == CharsBetween(text, 1, Len(text))

\* text.chars().take(limit_chars): the phrases that lie wholly inside the
\* first limit_chars characters.  The phrase the cut falls in is left out; no
\* keyword test of the engine is answered by a cut phrase in this model.
RECURSIVE FitCount(_, _, _, _)
FitCount(text, limit_chars, lo, hi) ==
    IF lo >= hi THEN lo
    ELSE IF CharsBetween(text, 1, (lo + hi + 1) \div 2) <= limit_chars
    THEN FitCount(text, limit_chars, (lo + hi + 1) \div 2, hi)
    ELSE FitCount(text, limit_chars, lo, (lo + hi + 1) \div 2 - 1)
TakeChars(text, limit_chars) == SubSeq(text, 1, FitCount(text, limit_chars, 0, Len(text)))

truncate_for_token_limit(text, limit_chars) ==
    IF TextLen(text) <= limit_chars THEN text
    ELSE TakeChars(text, limit_chars) \o <<"... [truncated]">>

transform_activities_for_frontend(tool, acts) ==
    CASE tool \in {"get_music_history", "get_recent_activities", "get_recent_ocr",
                   "parallel_search"} -> acts
      [] tool = "get_recent_file_changes" ->
            [i \in DOMAIN acts |->
                [app |-> "File Monitor", title |-> acts[i].path,
                 time |-> acts[i].detected_at, media |-> ""]]
      [] tool \in {"query_activities", "search_ocr"} ->
            [i \in DOMAIN acts |->
                [app |-> Column(acts[i], "app_name", ""),
                 title |-> Column(acts[i], "window_title", ""),
                 time |-> Column(acts[i], "start_time", 0), media |-> ""]]
      [] OTHER -> <<>>

ActivityKey(item) == <<item.app, item.title, item.time>>

\* items.retain(|item| seen.insert(key)): an item stays when no item before
\* it has its key.
FirstOfKey(items, i) ==
    \A j \in 1..(i - 1) : ActivityKey(items[j]) # ActivityKey(items[i])
ItemsOf(numbered) == [i \in DOMAIN numbered |-> numbered[i].item]
dedupe_activities(items) ==
    ItemsOf(SelectSeq([i \in DOMAIN items |-> [at |-> i, item |-> items[i]]],
                      LAMBDA p : FirstOfKey(items, p.at)))

is_media_activity_ref(item) ==
    \/ item.media # ""
    \/ \E n \in {"spotify", "youtube music", "apple music"} : PhraseContains(item.app, n)

RetainNonMedia(items) ==
    SeqFilterOut(items, {items[i] : i \in {j \in DOMAIN items : is_media_activity_ref(items[j])}})

\* ─── Parallel dispatcher ───

AttemptsPhrase(n) ==
    CASE n = 1 -> "attempts: 1" [] n = 2 -> "attempts: 2" [] OTHER -> "attempts: 3"

\* The prefix of calls for which a worker is spawned: the loop stops at the
\* first call without a tool field or naming parallel_search.
RECURSIVE SpawnCount(_)
SpawnCount(calls) ==
    IF calls = <<>> THEN 0
    ELSE IF "tool" \notin DOMAIN Head(calls) \/ Head(calls).tool = "parallel_search" THEN 0
    ELSE 1 + SpawnCount(Tail(calls))

\* The workers of a batch, each on its own connection, taken in call order;
\* the joins collect their results in call order.
\* What the join of one worker adds to the combined result.
WorkerJoin(acc, tool, r) ==
    [ok |-> acc.ok /\ r.ok,
     err |-> IF acc.ok /\ ~r.ok THEN r.err ELSE acc.err,
     output |-> acc.output \o <<"-", tool, AttemptsPhrase(r.attempts)>>
                   \o truncate_for_token_limit(r.output, 500),
     activities |-> acc.activities \o transform_activities_for_frontend(tool, r.activities),
     read |-> acc.read \cup r.read]

RECURSIVE RunWorkers(_, _, _, _, _)
RunWorkersAfter(r, calls, scope, q, acc) ==
    RunWorkers(r.db, Tail(calls), scope, q, WorkerJoin(acc, Head(calls).tool, r))
RunWorkers(db0, calls, scope, q, acc) ==
    IF calls = <<>> THEN acc @@ [db |-> db0]
    ELSE RunWorkersAfter(
             execute_tool_with_retries(
                 db0, Head(calls).tool,
                 enforce_tool_args_with_scope(Head(calls).tool, CallArgs(Head(calls)),
                                              scope, q),
                 MAX_TOOL_RETRY_LOOPS),
             calls, scope, q, acc)

\* The result of a batch of which the first n calls were spawned.
ParallelOutcome(ran, calls, n) ==
    IF n < Len(calls)
    THEN [Err(IF "tool" \in DOMAIN calls[n + 1]
              THEN "Nested parallel_search is not allowed"
              ELSE "Each parallel call needs a tool field", ran.db)
          EXCEPT !.read = ran.read]
    ELSE IF ~ran.ok THEN [Err(ran.err, ran.db) EXCEPT !.read = ran.read]
    ELSE Ok(ran.output, ran.activities, ran.db, ran.read)

execute_parallel_search(db0, args, scope, q) ==
    IF ~Has(args, "calls") THEN Err("parallel_search requires args.calls array", db0)
    ELSE IF args.calls = <<>> THEN Err("parallel_search requires at least one tool call", db0)
    ELSE ParallelOutcome(
             RunWorkers(db0, SubSeq(args.calls, 1, SpawnCount(args.calls)), scope, q,
                        [ok |-> TRUE, err |-> "",
                         output |-> <<"parallel search executed tool calls:">>,
                         activities |-> <<>>, read |-> {}]),
             args.calls, SpawnCount(args.calls))

ParallelCall(tool, args) == [tool |-> tool, args |-> args]

build_prefetch_parallel_args(scope, intent) ==
    LET all == scope.id = "all_time"
        c1 == <<ParallelCall("get_recent_activities",
                   [json |-> "object", limit |-> IF all THEN 120 ELSE 80,
                    exclude_media_noise |-> ~intent.wants_music])>>
        c2 == IF intent.wants_ocr \/ intent.broad_summary
              THEN <<ParallelCall("get_recent_ocr",
                         [json |-> "object", limit |-> IF all THEN 80 ELSE 50])>>
              ELSE <<>>
        c3 == IF intent.wants_files \/ intent.wants_timeline \/ intent.broad_summary
              THEN <<ParallelCall("get_recent_file_changes",
                         [json |-> "object", limit |-> IF all THEN 80 ELSE 40])>>
              ELSE <<>>
        c4 == IF intent.wants_music
              THEN <<ParallelCall("get_music_history",
                         [json |-> "object", limit |-> IF all THEN 80 ELSE 40])>>
              ELSE <<>>
    IN  [json |-> "object", calls |-> c1 \o c2 \o c3 \o c4]

build_forced_validation_parallel_args(scope, intent, q) ==
    LET all == scope.id = "all_time"
        c1 == <<ParallelCall("get_recent_activities",
                   [json |-> "object", limit |-> IF all THEN 120 ELSE 80,
                    exclude_media_noise |-> ~intent.wants_music]),
                ParallelCall("get_recent_ocr",
                   [json |-> "object", limit |-> IF all THEN 120 ELSE 80])>>
        c2 == IF intent.wants_files \/ QueryContainsAny(q, {"project", "file", "code"})
              THEN <<ParallelCall("get_recent_file_changes",
                         [json |-> "object", limit |-> IF all THEN 100 ELSE 60])>>
              ELSE <<>>
        c3 == IF intent.wants_music \/ QueryContainsAny(q, {"song", "music"})
              THEN <<ParallelCall("get_music_history",
                         [json |-> "object", limit |-> IF all THEN 80 ELSE 50])>>
              ELSE <<>>
    IN  [json |-> "object", calls |-> c1 \o c2 \o c3]

\* ─── Long-range pipeline ───

should_use_long_range_pipeline(q, scope, intent) ==
    /\ QueryContainsAny(q, {"summary", "overview", "recap", "what did i do", "this year",
                            "yearly", "annual"})
    /\ \/ scope.id \in {"this_year", "all_time"}
       \/ Max(scope.end_ts - scope.start_ts, 0) \div DaySecs >= 90
       \/ intent.broad_summary

AgentStep(tool_name, tool_args, tool_result, reasoning) ==
    [tool_name |-> tool_name, tool_args |-> tool_args, tool_result |-> tool_result,
     reasoning |-> reasoning]

RetryNote(attempts, output) ==
    IF attempts > 1 THEN <<"auto-retried with broader search">> \o output ELSE output

\* The fixed sequence of the pipeline: <<tool, raw args, reasoning>>.
LongRangePlan(scope, intent, q) ==
    LET all == scope.id = "all_time"
    IN  << <<"get_usage_stats", EmptyObject, "Aggregate usage baseline for long-range summary">>,
           <<"query_activities",
             [json |-> "object",
              query |-> Sql("SELECT", "monthly_category", scope.start_ts, scope.end_ts)],
             "Monthly category aggregation for long-range compression">>,
           <<"query_activities",
             [json |-> "object",
              query |-> Sql("SELECT", "top_apps", scope.start_ts, scope.end_ts)],
             "Top apps aggregation for the selected long-range window">>,
           <<"get_recent_activities",
             [json |-> "object", limit |-> IF all THEN 300 ELSE 220,
              exclude_media_noise |-> ~intent.wants_music],
             "Concrete activity slice for examples and chronology">> >>
        \o (IF intent.wants_files \/ QueryContainsAny(q, {"project", "repo", "code"})
            THEN << <<"get_recent_file_changes",
                      [json |-> "object", limit |-> IF all THEN 220 ELSE 160],
                      "File-change slice for project/work summary">> >>
            ELSE <<>>)
        \o (IF intent.wants_ocr \/ QueryContainsAny(q, {"chat", "text", "message"})
            THEN << <<"get_recent_ocr",
                      [json |-> "object", limit |-> IF all THEN 220 ELSE 160],
                      "OCR/chat slice for communication evidence">> >>
            ELSE <<>>)
        \o (IF intent.wants_music \/ QueryContainsAny(q, {"music", "song"})
            THEN << <<"get_music_history",
                      [json |-> "object", limit |-> IF all THEN 140 ELSE 100],
                      "Music slice for media trend evidence">> >>
            ELSE <<>>)

\* execute_and_record_long_range_step over the plan; the first failing step
\* ends the pipeline with its error.
RECURSIVE RunPlan(_, _, _, _, _)
RunPlanAfter(r, plan, scope, q, acc) ==
    IF ~r.ok
    THEN [acc EXCEPT !.ok = FALSE, !.read = @ \cup r.read] @@ [db |-> r.db]
    ELSE RunPlan(r.db, Tail(plan), scope, q,
            [ok |-> TRUE,
             steps |-> Append(acc.steps,
                          AgentStep(Head(plan)[1],
                              enforce_tool_args_with_scope(Head(plan)[1], Head(plan)[2],
                                                           scope, q),
                              truncate_for_token_limit(RetryNote(r.attempts, r.output), 10000),
                              Head(plan)[3])),
             refs |-> acc.refs
                         \o transform_activities_for_frontend(Head(plan)[1], r.activities),
             digest |-> acc.digest \o <<Head(plan)[1], "->">>
                           \o truncate_for_token_limit(
                                  truncate_for_token_limit(RetryNote(r.attempts, r.output),
                                                           10000), 900),
             read |-> acc.read \cup r.read])
RunPlan(db0, plan, scope, q, acc) ==
    IF plan = <<>> THEN acc @@ [db |-> db0]
    ELSE RunPlanAfter(
             execute_tool_with_retries(
                 db0, Head(plan)[1],
                 enforce_tool_args_with_scope(Head(plan)[1], Head(plan)[2], scope, q),
                 MAX_TOOL_RETRY_LOOPS),
             plan, scope, q, acc)

run_long_range_summary_pipeline(db0, scope, intent, q) ==
    RunPlan(db0, LongRangePlan(scope, intent, q), scope, q,
            [ok |-> TRUE, steps |-> <<>>, refs |-> <<>>, digest |-> <<>>, read |-> {}])

\* ─── Evidence gate ───

is_smalltalk_query(q) ==
    \/ q \in {"hi", "hello", "hey", "yo"}
    \/ QueryContainsAny(q, {"how are you", "thanks", "thank you", "good morning",
                            "good night"})

requires_evidence_for_query(q) == ~is_smalltalk_query(q)

requires_multi_tool_validation(q) ==
    QueryContainsAny(q, {"who", "which", "name", "chat", "message", "project", "code",
                         "file", "did i", "what did", "evidence", "confirm"})

is_project_query(q) ==
    QueryContainsAny(q, {"project", "projects", "code", "repo", "worked on", "work i did"})

is_identity_or_romance_query(q) ==
    QueryContainsAny(q, {"crush", "girl", "boy", "name", "whom do i", "who do i", "love"})

is_complex_query(q) == QueryContainsAny(q, {"who", "crush", "relationship"})

step_has_material_evidence(step) ==
    /\ step.tool_result \notin {<<>>, <<"[]">>, <<"{}">>}
    /\ ~TextContainsAny(step.tool_result,
                        {"no results", "0 result", "no matching", "\"results\":[]",
                         "\"items\":[]"})

EvidenceTools == {"get_recent_ocr", "search_ocr", "get_recent_activities",
                  "query_activities", "get_recent_file_changes", "get_music_history",
                  "get_usage_stats"}

collect_evidence_tool_names(log) ==
    UNION { LET step == log[i]
            IN  IF ~step_has_material_evidence(step) THEN {}
                ELSE IF step.tool_name \in EvidenceTools THEN {step.tool_name}
                ELSE IF step.tool_name = "parallel_search" /\ Has(step.tool_args, "calls")
                THEN {step.tool_args.calls[j].tool :
                         j \in {k \in DOMAIN step.tool_args.calls :
                                   "tool" \in DOMAIN step.tool_args.calls[k]}}
                ELSE {}
            : i \in DOMAIN log }

RECURSIVE has_project_evidence(_)
has_project_evidence(log) ==
    IF log = <<>> THEN FALSE
    ELSE IF Head(log).tool_name = "get_recent_file_changes"
    THEN step_has_material_evidence(Head(log))
    ELSE IF TextContainsAny(Head(log).tool_result,
                            {".ts", ".tsx", ".js", ".rs", ".py", "github", "repo",
                             "pull request"})
    THEN TRUE
    ELSE has_project_evidence(Tail(log))

has_explicit_chat_evidence(log) ==
    \E i \in DOMAIN log :
        TextContainsAny(log[i].tool_result,
                        {"whatsapp", "telegram", "instagram", "chat", "message"})

has_non_chat_strong_identity_evidence(log) ==
    Cardinality({i \in DOMAIN log :
                    /\ step_has_material_evidence(log[i])
                    /\ TextContainsAny(log[i].tool_result,
                                       {"linkedin", "profile", "call log", "contact",
                                        "frequent"})}) >= 2

has_minimum_evidence_for_query(q, log) ==
    IF ~requires_evidence_for_query(q) THEN TRUE
    ELSE LET evidence_steps == collect_evidence_tool_names(log)
         IN  IF evidence_steps = {} THEN FALSE
             ELSE IF requires_multi_tool_validation(q)
             THEN IF Cardinality(evidence_steps) < 2 THEN FALSE
                  ELSE IF is_project_query(q) /\ ~has_project_evidence(log) THEN FALSE
                  ELSE IF is_identity_or_romance_query(q)
                  THEN has_explicit_chat_evidence(log)
                          \/ has_non_chat_strong_identity_evidence(log)
                  ELSE TRUE
             ELSE IF is_project_query(q) THEN has_project_evidence(log)
             ELSE Cardinality(evidence_steps) >= 1

build_insufficient_evidence_action_marker(q, scope) ==
    LET enable_sources ==
            (IF QueryContainsAny(q, {"project", "repo", "code", "file"})
             THEN <<"files">> ELSE <<>>)
            \o (IF QueryContainsAny(q, {"browser", "website", "history", "linkedin"})
                THEN <<"browser">> ELSE <<>>)
            \o (IF QueryContainsAny(q, {"chat", "text", "message"})
                THEN <<"screen">> ELSE <<>>)
        suggested_scope ==
            IF QueryContains(q, "this year") /\ scope.id # "this_year" THEN "this_year"
            ELSE IF scope.id # "all_time" THEN "all_time"
            ELSE IF scope.id # "last_7_days" THEN "last_7_days"
            ELSE ""
    IN  IF suggested_scope = "" /\ enable_sources = <<>>
        THEN [kind |-> "none"]
        ELSE [kind |-> "confirm_scope_or_sources",
              reason |-> "evidence is insufficient in the current scope/source settings.",
              suggested_time_range |-> suggested_scope,
              enable_sources |-> enable_sources,
              retry_message |-> q]

contains_internal_tool_markup(text) ==
    TextContainsAny(text, {"<|tool_", "tool_calls_section_begin", "tool_call_begin",
                           "tool_call_argument_begin", "tool_calls_section_end"})

strip_internal_stream_markup(text) ==
    SeqFilterOut(text, {"<|tool_calls_section_begin|>", "<|tool_calls_section_end|>",
                        "<|tool_call_begin|>", "<|tool_call_end|>",
                        "<|tool_call_argument_begin|>"})

\* Every phrase of a text is one line of it.
normalize_final_answer_hardened(answer) ==
    LET cleaned == strip_internal_stream_markup(SeqFilterOut(answer, {"<think>", "</think>"}))
    IN  SeqFilterOut(cleaned, {cleaned[i] : i \in {j \in DOMAIN cleaned :
                                   contains_internal_tool_markup(<<cleaned[j]>>)}})

UncertaintyCaveat ==
    "note: i don't have explicit chat-app evidence in this time range, so i cannot claim texting/chats."

scrub_unsupported_communication_claims(answer, q, log) ==
    IF ~is_identity_or_romance_query(q) \/ has_explicit_chat_evidence(log) THEN answer
    ELSE IF ~TextContainsAny(answer, {"texted", "chatted", "whatsapp", "messaged"})
    THEN answer
    ELSE Append(answer, UncertaintyCaveat)

\* ─── State ───

VARIABLES
    pc,                 \* where the query is: "start", "thinking", "synth", "done", "idle"
    user_query,
    resolved_scope,
    db,                 \* the activity store
    steps,              \* Vec<AgentStep>
    all_activities,     \* activities_referenced
    messages,           \* the model context: how many messages of each kind
    turn,               \* turns of the loop used so far
    final_without_evidence_attempts,
    forced_parallel_runs,
    result,             \* what the query returned
    read_ts,            \* history: timestamps of the rows the tools' statements returned
    llm_calls,          \* history: streamed model calls made
    tool_runs,          \* history: tool dispatches made (retry wrapper or parallel batch)
    settings_api_key,   \* settings.ai.api_key as passed to the entry point
    env_api_key,        \* the NVIDIA_API_KEY environment variable: <<>> or <<value>>
    effects,            \* history: the kinds of side effect the query has had
    evidence_digest,    \* history: the pipeline digest as put into the model context
    r_pc,               \* execute_tool_with_retries, attempt by attempt
    r_tool,
    r_args,             \* current_args
    r_attempt,
    r_log,              \* history: the arguments and outcome of every execution
    r_ret,              \* what the wrapper returned
    p_pc,               \* execute_parallel_search: "idle", "call", "spawn", "join", "done"
    p_args,             \* its args
    p_workers,          \* one record per spawned worker thread
    p_joined,           \* handles joined so far
    p_out,              \* combined_output
    p_acts,             \* combined_activities
    p_ret,              \* what the batch returned
    s_pc,               \* one streamed model call: "idle", "status", "stream",
                        \* "after" (the stream has ended), "done"
    s_kind,             \* "turn" (agent loop) or "synthesis"
    s_output,           \* the model's whole output, in pieces
    s_rest,             \* the pieces not yet delivered
    s_sniff,            \* sniff: the pieces delivered so far
    s_suppress,         \* suppress_stream
    s_feed,             \* history: what was emitted on chat://token, chunk by chunk
    s_lost,             \* history: the kinds of event whose emit returned an error
    f_pc,               \* one call of a function on its own: "idle", "call", "done"
    f_in,               \* its inputs
    f_out               \* what it returned

loopVars == <<pc, user_query, resolved_scope, steps, all_activities, messages, turn,
              final_without_evidence_attempts, forced_parallel_runs, result, read_ts,
              llm_calls, tool_runs, settings_api_key, env_api_key, effects,
              evidence_digest>>
retryVars == <<r_pc, r_tool, r_args, r_attempt, r_log, r_ret>>
parVars == <<p_pc, p_args, p_workers, p_joined, p_out, p_acts, p_ret>>
streamVars == <<s_pc, s_kind, s_output, s_rest, s_sniff, s_suppress, s_feed, s_lost>>
fnVars == <<f_pc, f_in, f_out>>
vars == <<loopVars, db, retryVars, parVars, streamVars, fnVars>>

NoResult == [kind |-> "none"]
NoMessages == [k \in {} |-> 0]
OkResult(answer) == [kind |-> "ok", answer |-> answer]
ErrResult(msg) == [kind |-> "err", err |-> msg]

LoopIdle ==
    /\ pc = "idle"
    /\ user_query = ""
    /\ resolved_scope = resolve_time_scope("")
    /\ steps = <<>>
    /\ all_activities = <<>>
    /\ messages = NoMessages
    /\ turn = 0
    /\ final_without_evidence_attempts = 0
    /\ forced_parallel_runs = 0
    /\ result = NoResult
    /\ read_ts = {}
    /\ llm_calls = 0
    /\ tool_runs = 0
    /\ settings_api_key = ""
    /\ env_api_key = <<>>
    /\ effects = {}
    /\ evidence_digest = <<>>

RetryIdle ==
    /\ r_pc = "idle"
    /\ r_tool = ""
    /\ r_args = JsonNull
    /\ r_attempt = 0
    /\ r_log = <<>>
    /\ r_ret = NoResult

ParIdle ==
    /\ p_pc = "idle"
    /\ p_args = JsonNull
    /\ p_workers = <<>>
    /\ p_joined = 0
    /\ p_out = <<>>
    /\ p_acts = <<>>
    /\ p_ret = NoResult

StreamIdle ==
    /\ s_pc = "idle"
    /\ s_kind = ""
    /\ s_output = <<>>
    /\ s_rest = <<>>
    /\ s_sniff = <<>>
    /\ s_suppress = FALSE
    /\ s_feed = <<>>
    /\ s_lost = {}

FnIdle ==
    /\ f_pc = "idle"
    /\ f_in = <<>>
    /\ f_out = <<>>

\* ─── execute_tool_with_retries, one attempt per step ───

StampedWindow ==
    [json |-> "object", start_ts |-> resolve_time_scope("").start_ts,
     end_ts |-> resolve_time_scope("").end_ts, scope_label |-> "Today", hours |-> 14]
OldWindow ==
    [json |-> "object", start_ts |-> 0, end_ts |-> Now, scope_label |-> "All Time",
     hours |-> 974]

RetryTools == {"get_music_history", "get_recent_activities", "get_recent_ocr",
               "get_recent_file_changes", "search_ocr", "query_activities",
               "get_usage_stats"}

\* The arguments a wrapper call may start from: with and without a stamped
\* window, with and without limit and hours.
RetryArgsOf(tool) ==
    LET bases == {EmptyObject, [json |-> "object", hours |-> 200],
                  [json |-> "object", start_ts |-> 0],
                  [json |-> "object", start_ts |-> 0, end_ts |-> Now],
                  StampedWindow, OldWindow}
        limited == bases \cup {Put(b, "limit", l) : b \in bases, l \in {0, 100, 240, 300}}
    IN  CASE tool = "search_ocr" ->
               {Put(a, "keyword", k) : a \in limited,
                                       k \in {<<"sam">>, <<"sam", "says">>, <<"zzz">>}}
               \cup {EmptyObject}
          [] tool = "query_activities" ->
               {Put(a, "query", Sql("select", "rows", 0, Now)) : a \in {EmptyObject, StampedWindow}}
          [] OTHER -> limited \cup {JsonNull}

InitRetry ==
    /\ LoopIdle
    /\ ParIdle
    /\ StreamIdle
    /\ FnIdle
    /\ db \in {EmptyDb, SampleDb}
    /\ r_pc = "call"
    /\ r_tool \in RetryTools
    /\ r_args \in RetryArgsOf(r_tool)
    /\ r_attempt = 1
    /\ r_log = <<>>
    /\ r_ret = NoResult

RetryAfter(r) ==
    LET verdict == RetryVerdict(r_tool, r, r_attempt, Max(MAX_TOOL_RETRY_LOOPS, 1))
    IN  /\ r_log' = Append(r_log, [args |-> r_args, ok |-> r.ok, output |-> r.output,
                                   activities |-> r.activities, err |-> r.err])
        /\ db' = r.db
        /\ CASE verdict = "error" ->
                  /\ r_ret' = [kind |-> "err", err |-> r.err]
                  /\ r_pc' = "done"
                  /\ UNCHANGED <<r_args, r_attempt>>
             [] verdict = "return" ->
                  /\ r_ret' = [kind |-> "ok", output |-> r.output,
                               activities |-> r.activities, attempts |-> r_attempt]
                  /\ r_pc' = "done"
                  /\ UNCHANGED <<r_args, r_attempt>>
             [] OTHER ->
                  /\ r_args' = broaden_tool_args(r_tool, r_args, r_attempt)
                  /\ r_attempt' = r_attempt + 1
                  /\ UNCHANGED <<r_pc, r_ret>>
        /\ UNCHANGED <<r_tool, loopVars, parVars, streamVars, fnVars>>

\* One pass of the loop: the tool runs on the store.
Attempt ==
    /\ r_pc = "call"
    /\ RetryAfter(execute_tool(db, r_tool, r_args))

\* One pass of the loop in which the store refuses the statement (prepare or
\* query_map fails).
AttemptStoreError ==
    /\ r_pc = "call"
    /\ RetryAfter(Err("SQL Error", db))

NextRetry == Attempt \/ AttemptStoreError

SpecRetry == InitRetry /\ [][NextRetry]_vars

\* ─── execute_parallel_search, thread by thread ───

\* The batches a caller may pass.
ParBatches ==
    { JsonNull, EmptyObject,
      [json |-> "object", calls |-> <<>>],
      [json |-> "object",
       calls |-> << [tool |-> "get_recent_activities", args |-> EmptyObject],
                    [tool |-> "get_recent_ocr", args |-> EmptyObject] >>],
      [json |-> "object",
       calls |-> << [tool |-> "get_recent_file_changes", args |-> EmptyObject],
                    [tool |-> "search_ocr", args |-> EmptyObject] >>],
      [json |-> "object",
       calls |-> << [tool |-> "get_recent_activities", args |-> EmptyObject],
                    [args |-> EmptyObject] >>],
      [json |-> "object",
       calls |-> << [tool |-> "get_recent_ocr"],
                    [tool |-> "parallel_search", args |-> EmptyObject] >>],
      [json |-> "object",
       calls |-> << [tool |-> "query_activities",
                     args |-> [json |-> "object",
                               query |-> Sql("replace", "rows", 0, Now)]],
                    [tool |-> "get_recent_activities", args |-> EmptyObject] >>],
      [json |-> "object",
       calls |-> << [tool |-> "get_usage_stats", args |-> EmptyObject],
                    [tool |-> "get_music_history", args |-> EmptyObject],
                    [tool |-> "nope", args |-> EmptyObject] >>] }

InitPar ==
    /\ LoopIdle
    /\ RetryIdle
    /\ StreamIdle
    /\ FnIdle
    /\ db \in {EmptyDb, SampleDb}
    /\ p_pc = "call"
    /\ p_args \in ParBatches
    /\ p_workers = <<>>
    /\ p_joined = 0
    /\ p_out = <<>>
    /\ p_acts = <<>>
    /\ p_ret = NoResult

ParReturn(res) ==
    /\ p_ret' = res
    /\ p_pc' = "done"

\* Lines 1283-1289: the calls array is looked up.
ParallelBegin ==
    /\ p_pc = "call"
    /\ IF ~Has(p_args, "calls")
       THEN ParReturn(ErrResult("parallel_search requires args.calls array"))
       ELSE IF p_args.calls = <<>>
       THEN ParReturn(ErrResult("parallel_search requires at least one tool call"))
       ELSE p_pc' = "spawn" /\ UNCHANGED p_ret
    /\ UNCHANGED <<p_args, p_workers, p_joined, p_out, p_acts, db, loopVars, retryVars,
                   streamVars, fnVars>>

\* Lines 1291-1315: one pass of the spawning loop.
Spawn ==
    /\ p_pc = "spawn"
    /\ \E call \in {p_args.calls[Len(p_workers) + 1]} :
          IF "tool" \notin DOMAIN call
          THEN /\ ParReturn(ErrResult("Each parallel call needs a tool field"))
               /\ UNCHANGED <<p_workers, p_out>>
          ELSE IF call.tool = "parallel_search"
          THEN /\ ParReturn(ErrResult("Nested parallel_search is not allowed"))
               /\ UNCHANGED <<p_workers, p_out>>
          ELSE /\ p_workers' =
                     Append(p_workers,
                            [tool |-> call.tool,
                             args |-> enforce_tool_args_with_scope(
                                          call.tool, CallArgs(call), resolved_scope,
                                          user_query),
                             attempt |-> 1, status |-> "running", output |-> <<>>,
                             activities |-> <<>>, err |-> ""])
               /\ IF Len(p_workers) + 1 = Len(p_args.calls)
                  THEN /\ p_pc' = "join"
                       /\ p_out' = <<"parallel search executed tool calls:">>
                  ELSE UNCHANGED <<p_pc, p_out>>
               /\ UNCHANGED p_ret
    /\ UNCHANGED <<p_args, p_joined, p_acts, db, loopVars, retryVars, streamVars, fnVars>>

\* WorkerRun in which a worker that finishes while another one is still
\* running loses its records.
WorkerRun_racy(i, r) ==
    \E w \in {p_workers[i]} :
      \E verdict \in {RetryVerdict(w.tool, r, w.attempt, Max(MAX_TOOL_RETRY_LOOPS, 1))} :
        /\ db' = r.db
        /\ p_workers' =
              [p_workers EXCEPT ![i] =
                  CASE verdict = "error" -> [w EXCEPT !.status = "err", !.err = r.err]
                    [] verdict = "return" ->
                          [w EXCEPT !.status = "ok", !.output = r.output,
                                    !.activities =
                                        IF \E j \in DOMAIN p_workers :
                                               j # i /\ p_workers[j].status = "running"
                                        THEN <<>> ELSE r.activities]
                    [] OTHER ->
                          [w EXCEPT !.args = broaden_tool_args(w.tool, w.args, w.attempt),
                                    !.attempt = w.attempt + 1]]
        /\ UNCHANGED <<p_pc, p_args, p_joined, p_out, p_acts, p_ret, loopVars, retryVars,
                       streamVars, fnVars>>

\* One execution inside the worker i (lines 1310-1314, 1266-1272).
WorkerRun(i, r) ==
    \E w \in {p_workers[i]} :
      \E verdict \in {RetryVerdict(w.tool, r, w.attempt, Max(MAX_TOOL_RETRY_LOOPS, 1))} :
        /\ db' = r.db
        /\ p_workers' =
              [p_workers EXCEPT ![i] =
                  CASE verdict = "error" -> [w EXCEPT !.status = "err", !.err = r.err]
                    [] verdict = "return" ->
                          [w EXCEPT !.status = "ok", !.output = r.output,
                                    !.activities = r.activities]
                    [] OTHER ->
                          [w EXCEPT !.args = broaden_tool_args(w.tool, w.args, w.attempt),
                                    !.attempt = w.attempt + 1]]
        /\ UNCHANGED <<p_pc, p_args, p_joined, p_out, p_acts, p_ret, loopVars, retryVars,
                       streamVars, fnVars>>

Running(i) == i \in DOMAIN p_workers /\ p_workers[i].status = "running"

WorkerAttempt ==
    \E i \in DOMAIN p_workers :
        /\ Running(i)
        /\ WorkerRun(i, execute_tool(db, p_workers[i].tool, p_workers[i].args))

\* The worker cannot open the store, or the store refuses its statement.
WorkerStoreError ==
    \E i \in DOMAIN p_workers :
        /\ Running(i)
        /\ WorkerRun(i, Err("SQL Error", db))

\* The worker thread panics.
WorkerPanic ==
    \E i \in DOMAIN p_workers :
        /\ Running(i)
        /\ p_workers' = [p_workers EXCEPT ![i].status = "panicked"]
        /\ UNCHANGED <<p_pc, p_args, p_joined, p_out, p_acts, p_ret, db, loopVars,
                       retryVars, streamVars, fnVars>>

\* JoinVerdict that takes a failed worker for a finished one.
JoinVerdict_lenient(w) ==
    IF w.status = "panicked" THEN "panic" ELSE "ok"

\* handle.join().map_err(..)??: what the join of a finished worker yields.
JoinVerdict(w) ==
    CASE w.status = "panicked" -> "panic"
      [] w.status = "err" -> "error"
      [] OTHER -> "ok"

\* Join that puts what it collects in front of what it has.
Join_prepend ==
    /\ p_pc = "join"
    /\ \E w \in {p_workers[p_joined + 1]} :
        /\ w.status # "running"
        /\ \E verdict \in {JoinVerdict(w)},
              out \in {<<"-", w.tool, AttemptsPhrase(w.attempt)>>
                            \o truncate_for_token_limit(w.output, 500) \o p_out},
              acts \in {transform_activities_for_frontend(w.tool, w.activities) \o p_acts} :
              CASE verdict = "panic" ->
                      /\ ParReturn(ErrResult("Parallel search worker panicked"))
                      /\ UNCHANGED <<p_joined, p_out, p_acts>>
                [] verdict = "error" ->
                      /\ ParReturn(ErrResult(w.err))
                      /\ UNCHANGED <<p_joined, p_out, p_acts>>
                [] OTHER ->
                      /\ p_joined' = p_joined + 1
                      /\ p_out' = out
                      /\ p_acts' = acts
                      /\ IF p_joined + 1 = Len(p_workers)
                         THEN ParReturn([kind |-> "ok", output |-> out, activities |-> acts])
                         ELSE UNCHANGED <<p_pc, p_ret>>
    /\ UNCHANGED <<p_args, p_workers, db, loopVars, retryVars, streamVars, fnVars>>

\* Lines 1320-1333: one pass of the joining loop, and the return after the last.
Join ==
    /\ p_pc = "join"
    /\ \E w \in {p_workers[p_joined + 1]} :
        /\ w.status # "running"
        /\ \E verdict \in {JoinVerdict(w)},
              out \in {p_out \o <<"-", w.tool, AttemptsPhrase(w.attempt)>>
                            \o truncate_for_token_limit(w.output, 500)},
              acts \in {p_acts \o transform_activities_for_frontend(w.tool, w.activities)} :
              CASE verdict = "panic" ->
                      /\ ParReturn(ErrResult("Parallel search worker panicked"))
                      /\ UNCHANGED <<p_joined, p_out, p_acts>>
                [] verdict = "error" ->
                      /\ ParReturn(ErrResult(w.err))
                      /\ UNCHANGED <<p_joined, p_out, p_acts>>
                [] OTHER ->
                      /\ p_joined' = p_joined + 1
                      /\ p_out' = out
                      /\ p_acts' = acts
                      /\ IF p_joined + 1 = Len(p_workers)
                         THEN ParReturn([kind |-> "ok", output |-> out, activities |-> acts])
                         ELSE UNCHANGED <<p_pc, p_ret>>
    /\ UNCHANGED <<p_args, p_workers, db, loopVars, retryVars, streamVars, fnVars>>

NextPar ==
    ParallelBegin \/ Spawn \/ WorkerAttempt \/ WorkerStoreError \/ WorkerPanic \/ Join

SpecPar == InitPar /\ [][NextPar]_vars

\* ─── One streamed model call, chunk by chunk ───

\* What the model may write, in pieces; a chunk of the stream is a run of
\* consecutive pieces.
ToolCallOutputs ==
    { <<"{", "\"tool\"", ":\"get_recent_ocr\",", "\"args\"", ":{}}">>,
      <<"{", "\"reasoning\"", ":\"look at ocr\",", "\"tool\"", ":\"get_recent_ocr\",",
        "\"args\"", ":{}}">> }
StreamOutputs ==
    ToolCallOutputs
        \cup { <<"you used code", "\n", "today">>,
               <<"<|tool_call_begin|>", "you used code", "<|tool_call_end|>">> }

InitStream ==
    /\ LoopIdle
    /\ RetryIdle
    /\ ParIdle
    /\ FnIdle
    /\ db = EmptyDb
    /\ s_pc = "status"
    /\ s_kind \in {"turn", "synthesis"}
    /\ s_output \in StreamOutputs
    /\ s_rest = s_output
    /\ s_sniff = <<>>
    /\ s_suppress = FALSE
    /\ s_feed = <<>>
    /\ s_lost = {}

\* chunk.trim().is_empty()
IsBlank(chunk) == \A i \in DOMAIN chunk : chunk[i] \in {" ", "\n"}

\* Lines 390-401: what the buffer says about the stream.
SniffSuppresses(sniff) ==
    \/ (TextContains(sniff, "\"tool\"") /\ TextContains(sniff, "\"args\""))
    \/ TextContains(sniff, "\"reasoning\"")
    \/ contains_internal_tool_markup(sniff)

\* AfterEmit for an emit whose error is passed on with `?`.
AfterEmit_propagate(delivered, next_pc) == IF delivered THEN next_pc ELSE "done"

\* `let _ = app_handle.emit(..)`: the result of the emit is dropped, and the
\* code goes on to next_pc whether the event was delivered or not.
AfterEmit(delivered, next_pc) == next_pc

\* One emit of an event of the kind: it is delivered or it returns an error.
Lost(kind, delivered) == IF delivered THEN s_lost ELSE s_lost \cup {kind}

\* Lines 379 and 663: the status event before the model call.
EmitStatus ==
    /\ s_pc = "status"
    /\ \E delivered \in BOOLEAN :
          /\ s_lost' = Lost("status", delivered)
          /\ s_pc' = AfterEmit(delivered, "stream")
    /\ UNCHANGED <<s_kind, s_output, s_rest, s_sniff, s_suppress, s_feed, db, loopVars,
                   retryVars, parVars, fnVars>>

\* The chunk of n pieces has been handled; delivered tells whether its emit,
\* if there was one, came through.
Deliver(n, delivered) ==
    /\ s_rest' = SubSeq(s_rest, n + 1, Len(s_rest))
    /\ s_pc' = AfterEmit(delivered,
                         IF n < Len(s_rest) THEN "stream"
                         ELSE IF s_kind = "turn" THEN "after" ELSE "done")
    /\ UNCHANGED <<s_kind, s_output, db, loopVars, retryVars, parVars, fnVars>>

\* on_token of the agent loop (lines 387-409) on the next chunk.
OnTokenTurn ==
    /\ s_pc = "stream"
    /\ s_kind = "turn"
    /\ \E n \in 1..Len(s_rest) :
        \E chunk \in {SubSeq(s_rest, 1, n)} :
          \E suppress \in {s_suppress \/ SniffSuppresses(s_sniff \o chunk)},
             cleaned \in {strip_internal_stream_markup(chunk)} :
            /\ s_sniff' = s_sniff \o chunk
            /\ s_suppress' = suppress
            /\ IF ~suppress /\ ~IsBlank(cleaned)
               THEN \E delivered \in BOOLEAN :
                      /\ s_feed' = IF delivered THEN Append(s_feed, cleaned) ELSE s_feed
                      /\ s_lost' = Lost("token", delivered)
                      /\ Deliver(n, delivered)
               ELSE /\ UNCHANGED <<s_feed, s_lost>>
                    /\ Deliver(n, TRUE)

\* on_token of synthesize_answer_from_evidence (lines 2660-2663).
OnTokenSynthesis ==
    /\ s_pc = "stream"
    /\ s_kind = "synthesis"
    /\ \E n \in 1..Len(s_rest) :
        \E chunk \in {SubSeq(s_rest, 1, n)}, delivered \in BOOLEAN :
            /\ s_feed' = IF delivered THEN Append(s_feed, chunk) ELSE s_feed
            /\ s_lost' = Lost("token", delivered)
            /\ UNCHANGED <<s_sniff, s_suppress>>
            /\ Deliver(n, delivered)

\* After the stream of a turn: "Running {tool}" and "{tool} completed" on
\* chat://status around a tool call (lines 588, 628-631), "final_answer" on
\* chat://done before a final answer is returned (lines 531, 543, 576).
EmitAfterTurn ==
    /\ s_pc = "after"
    /\ \E delivered \in BOOLEAN :
          /\ s_lost' = Lost(IF s_output \in ToolCallOutputs THEN "status" ELSE "done",
                            delivered)
          /\ s_pc' = AfterEmit(delivered, "done")
    /\ UNCHANGED <<s_kind, s_output, s_rest, s_sniff, s_suppress, s_feed, db, loopVars,
                   retryVars, parVars, fnVars>>

NextStream == EmitStatus \/ OnTokenTurn \/ OnTokenSynthesis \/ EmitAfterTurn

SpecStream == InitStream /\ [][NextStream]_vars

\* ─── send_chat_message: the conversation handed to the engine ───

\* The rows of chat_messages of one session: row i of n was stored i-th, one
\* minute after the row before it; the row `blank` has only white space.
MaxHistory == 14
ChatRow(i, n, blank) ==
    [role |-> IF i % 2 = 1 THEN "user" ELSE "Assistant",
     content |-> IF i = blank THEN <<" ">> ELSE <<"message", ToString(i)>>,
     created_at |-> Now - 60 * (n - i + 1)]
ChatRows(n, blank) == {ChatRow(i, n, blank) : i \in 1..n}

\* The number of messages send_chat_message asks for.
ContextLimit == 12

\* load_recent_chat_context: ORDER BY created_at DESC LIMIT ?2, each row as
\* a ChatMessage.
AsChatMessages(rows) ==
    [i \in DOMAIN rows |-> [role |-> rows[i].role, content |-> rows[i].content]]
load_recent_chat_context(chat_messages, limit) ==
    AsChatMessages(Take(OrderDesc(chat_messages, "created_at"), limit))

\* msg.role.eq_ignore_ascii_case("assistant")
RoleFor(role) == IF role \in {"assistant", "Assistant", "ASSISTANT"} THEN "assistant" ELSE "user"

\* prior_messages.iter().rev().take(12).rev(): the last 12, in the order given.
LastTwelve(prior_messages) ==
    SubSeq(prior_messages, Max(Len(prior_messages) - 12, 0) + 1, Len(prior_messages))

\* Lines 288-302 of the engine: the prior messages that are passed on.
AsPriorTurns(kept) ==
    [i \in DOMAIN kept |->
        [role |-> RoleFor(kept[i].role),
         content |-> truncate_for_token_limit(kept[i].content, 1200)]]
PriorTurns(prior_messages) ==
    AsPriorTurns(SelectSeq(LastTwelve(prior_messages), LAMBDA msg : ~IsBlank(msg.content)))

InitChat ==
    /\ LoopIdle
    /\ RetryIdle
    /\ ParIdle
    /\ StreamIdle
    /\ db = EmptyDb
    /\ f_pc = "call"
    /\ \E n \in 0..MaxHistory, blank \in 0..MaxHistory :
          /\ f_in = [chat_messages |-> ChatRows(n, blank), message |-> "who is my crush"]
          /\ f_out = [recent_context |-> <<>>, chat_messages |-> ChatRows(n, blank),
                      messages |-> <<>>]

\* Step 1 of send_chat_message: the context is loaded before the message is
\* stored.
LoadContext ==
    /\ f_pc = "call"
    /\ f_out' = [f_out EXCEPT !.recent_context =
                                  load_recent_chat_context(f_out.chat_messages, ContextLimit)]
    /\ f_pc' = "loaded"
    /\ UNCHANGED <<f_in, db, loopVars, retryVars, parVars, streamVars>>

\* Step 2: the user's message is stored.
StoreUserMessage ==
    /\ f_pc = "loaded"
    /\ f_out' = [f_out EXCEPT !.chat_messages =
                                  @ \cup {[role |-> "user", content |-> <<f_in.message>>,
                                           created_at |-> Now]}]
    /\ f_pc' = "stored"
    /\ UNCHANGED <<f_in, db, loopVars, retryVars, parVars, streamVars>>

\* The store cannot be opened, or refuses the statement.
ChatStoreError ==
    /\ f_pc \in {"call", "loaded"}
    /\ f_pc' = "failed"
    /\ UNCHANGED <<f_in, f_out, db, loopVars, retryVars, parVars, streamVars>>

\* Step 3, lines 281-321 of the engine: the system prompt, the prior turns,
\* the message that carries the query.
BuildMessages ==
    /\ f_pc = "stored"
    /\ f_out' = [f_out EXCEPT !.messages =
                      <<[role |-> "system", content |-> <<"AGENT_SYSTEM_PROMPT">>]>>
                          \o PriorTurns(f_out.recent_context)
                          \o <<[role |-> "user", content |-> <<"user query:", f_in.message>>]>>]
    /\ f_pc' = "done"
    /\ UNCHANGED <<f_in, db, loopVars, retryVars, parVars, streamVars>>

NextChat == LoadContext \/ StoreUserMessage \/ ChatStoreError \/ BuildMessages

SpecChat == InitChat /\ [][NextChat]_vars

\* ─── resolve_time_scope on its own ───

\* The scope tokens a caller may pass: None, empty, blank, the ids, ids in
\* another case or with spaces around, and tokens the engine does not know.
ScopeTokens ==
    { <<>>, <<"">>, <<"  ">>, <<"today">>, <<"yesterday">>, <<" Yesterday ">>,
      <<"last_3_days">>, <<"last_7_days">>, <<"last_30_days">>, <<"this_year">>,
      <<"all_time">>, <<"ALL_TIME">>, <<"last week">>, <<"tomorrow">> }

\* The last second of the day of Now.
LastSecondOfDay == Now - (Now % DaySecs) + DaySecs - 1

\* The two readings of the clock: the second is taken after the first, in
\* the same second or in the next one.
InitScope ==
    /\ LoopIdle
    /\ RetryIdle
    /\ ParIdle
    /\ StreamIdle
    /\ db = EmptyDb
    /\ f_pc = "call"
    /\ f_out = <<>>
    /\ \E token \in ScopeTokens, now \in {Now, LastSecondOfDay - 1, LastSecondOfDay},
          tick \in {0, 1}, single_ok \in BOOLEAN :
            f_in = [explicit_scope |-> token, now |-> now, local_now |-> now + tick,
                    single_ok |-> single_ok]

ResolveScope ==
    /\ f_pc = "call"
    /\ f_out' = resolve_time_scope_at(f_in.explicit_scope, f_in.now, f_in.local_now,
                                      f_in.single_ok)
    /\ f_pc' = "done"
    /\ UNCHANGED <<f_in, db, loopVars, retryVars, parVars, streamVars>>

SpecScope == InitScope /\ [][ResolveScope]_vars

\* ─── sanitize_ocr_for_query on the characters of a captured string ───

\* The characters of a captured string, one of each class the filter tells
\* apart: a vowel, a consonant, a digit, a symbol the filter keeps, a symbol
\* it removes, and the space.
OcrChars == {"a", "b", "7", "#", "$", " "}
IsAlphabetic(c) == c \in {"a", "b"}
IsDigit(c) == c = "7"
IsWhitespace(c) == c = " "
IsVowel(c) == c = "a"
IsSymbol(c) == ~IsAlphabetic(c) /\ ~IsDigit(c) /\ ~IsWhitespace(c)
\* The characters of ",.;:!?()[]{}'\"/@#&+-_|".
KeptPunctuation == {"#"}

\* split_whitespace().join(" "): no space at either end, one between words.
RECURSIVE JoinWords(_, _, _)
JoinWords(chars, i, out) ==
    IF i > Len(chars) THEN out
    ELSE IF IsWhitespace(chars[i])
         THEN JoinWords(chars, i + 1, out)
         ELSE JoinWords(chars, i + 1,
                        IF i > 1 /\ IsWhitespace(chars[i - 1]) /\ out # <<>>
                        THEN out \o <<" ", chars[i]>>
                        ELSE Append(out, chars[i]))
normalize_whitespace(chars) == JoinWords(chars, 1, <<>>)

GibberishVerdict(total, letters, digits, symbols, vowels) ==
    \/ 100 * symbols > 35 * total
    \/ 100 * letters < 18 * total
    \/ letters > 10 /\ 100 * (IF letters > 0 THEN vowels ELSE 0) < 6 * letters
    \/ 10 * digits > 7 * total

looks_like_gibberish(chars) ==
    \/ chars = <<>>
    \/ GibberishVerdict(Len(chars), Len(SelectSeq(chars, IsAlphabetic)),
                        Len(SelectSeq(chars, IsDigit)), Len(SelectSeq(chars, IsSymbol)),
                        Len(SelectSeq(chars, IsVowel)))

FilterKept(chars) ==
    SelectSeq(chars, LAMBDA c : IsAlphabetic(c) \/ IsDigit(c) \/ IsWhitespace(c)
                                \/ c \in KeptPunctuation)

KeepUnlessNoise(cleaned) ==
    IF Len(cleaned) < 3 \/ looks_like_gibberish(cleaned) THEN <<>> ELSE cleaned

\* sanitize_ocr_for_query on characters; <<>> is the empty string, for which
\* both OCR tools skip the row.
sanitize_ocr_chars(chars) ==
    IF normalize_whitespace(chars) = <<>> THEN <<>>
    ELSE KeepUnlessNoise(normalize_whitespace(FilterKept(normalize_whitespace(chars))))

\* Captured strings: up to MaxRuns runs of one character each.
MaxRuns == 3
RunLengths == {1, 2, 6, 10, 11}
Repeat(c, n) == [i \in 1..n |-> c]
RECURSIVE Expand(_)
Expand(runs) ==
    IF runs = <<>> THEN <<>>
    ELSE Repeat(runs[1].c, runs[1].n) \o Expand(Tail(runs))

InitOcr ==
    /\ LoopIdle
    /\ RetryIdle
    /\ ParIdle
    /\ StreamIdle
    /\ db = EmptyDb
    /\ f_pc = "call"
    /\ f_out = <<>>
    /\ \E k \in 1..MaxRuns : \E runs \in [1..k -> [c : OcrChars, n : RunLengths]] :
            f_in = Expand(runs)

SanitizeOcr ==
    /\ f_pc = "call"
    /\ f_out' = sanitize_ocr_chars(f_in)
    /\ f_pc' = "done"
    /\ UNCHANGED <<f_in, db, loopVars, retryVars, parVars, streamVars>>

SpecOcr == InitOcr /\ [][SanitizeOcr]_vars

\* ─── call_llm_stream, network chunk by network chunk ───

\* The body of a response is a sequence of pieces of bytes: "data: ", the
\* pieces of a JSON object ("{", the delta, "}"), "[DONE]", a comment line,
\* "\r" and "\n". A network chunk is a run of consecutive pieces.
ContentOf(piece) ==
    CASE piece = "content:hel" -> <<"hel">>
      [] piece = "content:lo" -> <<"lo">>
      [] OTHER -> <<>>
ReasoningOf(piece) ==
    CASE piece = "reasoning:hm" -> <<"hm">>
      [] OTHER -> <<>>
DeltaPieces == {"content:hel", "content:lo", "reasoning:hm"}

DataLine(delta) == <<"data: ", "{", delta, "}">>
DoneLine == <<"data: ", "[DONE]">>
SseBodies ==
    { DataLine("content:hel") \o <<"\n", "\n">> \o DataLine("content:lo") \o <<"\n", "\n">>
          \o DoneLine \o <<"\n", "\n">>,
      DataLine("content:hel") \o <<"\r", "\n">> \o DoneLine \o <<"\r", "\n">>
          \o DataLine("content:lo") \o <<"\r", "\n">>,
      DataLine("reasoning:hm") \o <<"\n">> \o DataLine("content:hel") \o <<"\n">>
          \o DoneLine \o <<"\n">>,
      <<": ping", "\n">> \o DataLine("content:hel") \o <<"\n">> \o DataLine("reasoning:hm") }

\* buffer.split('\n'): the runs between the newlines, the last one included.
RECURSIVE SplitLines(_, _)
SplitLines(bytes, line) ==
    IF bytes = <<>> THEN <<line>>
    ELSE IF Head(bytes) = "\n" THEN <<line>> \o SplitLines(Tail(bytes), <<>>)
    ELSE SplitLines(Tail(bytes), Append(line, Head(bytes)))

\* line.trim(); the space that ends "data: " goes when nothing follows it.
RECURSIVE TrimLine(_)
TrimLine(line) ==
    IF line = <<>> THEN <<>>
    ELSE IF Head(line) = "\r" THEN TrimLine(Tail(line))
    ELSE IF line[Len(line)] = "\r" THEN TrimLine(SubSeq(line, 1, Len(line) - 1))
    ELSE IF line = <<"data: ">> THEN <<"data:">>
    ELSE line

\* serde_json::from_str::<ChatStreamResponse>(data) succeeds.
ParsesAsResponse(data) == Len(data) = 3 /\ data[1] = "{" /\ data[2] \in DeltaPieces /\ data[3] = "}"

\* Lines 2744-2754: the reasoning_content of a delta.
WithReasoning(st, reasoning) ==
    IF reasoning = <<>> THEN st
    ELSE [output |-> st.output \o (IF st.reasoning_open THEN <<>> ELSE <<"<think>">>)
                        \o reasoning,
          reasoning_open |-> TRUE]

\* Lines 2755-2763: the content of a delta.
WithContent(st, content) ==
    IF content = <<>> THEN st
    ELSE [output |-> st.output \o (IF st.reasoning_open THEN <<"</think>">> ELSE <<>>)
                        \o content,
          reasoning_open |-> FALSE]

\* Lines 2737-2767: the loop over the lines of the buffer, which ends at a
\* "[DONE]" line.
RECURSIVE ProcessLines(_, _)
ProcessTrimmed(line, rest, st) ==
    IF Len(line) >= 2 /\ line[1] = "data: "
    THEN IF Tail(line) = <<"[DONE]">> THEN st
         ELSE IF ParsesAsResponse(Tail(line))
         THEN ProcessLines(rest, WithContent(WithReasoning(st, ReasoningOf(line[3])),
                                             ContentOf(line[3])))
         ELSE ProcessLines(rest, st)
    ELSE ProcessLines(rest, st)
ProcessLines(lines, st) ==
    IF lines = <<>> THEN st
    ELSE ProcessTrimmed(TrimLine(Head(lines)), Tail(lines), st)

\* Lines 2724-2770 for one chunk of the body: the buffer after it (last_part)
\* and the response accumulated.
AfterChunk(st, chunk, lines) ==
    [pos |-> st.pos + Len(chunk),
     buffer |-> IF chunk[Len(chunk)] = "\n" THEN <<>> ELSE lines[Len(lines)]]
        @@ ProcessLines(lines, [output |-> st.output, reasoning_open |-> st.reasoning_open])

InitSse ==
    /\ LoopIdle
    /\ RetryIdle
    /\ ParIdle
    /\ StreamIdle
    /\ db = EmptyDb
    /\ f_pc = "call"
    /\ f_in \in SseBodies
    /\ f_out = [pos |-> 0, buffer |-> <<>>, output |-> <<>>, reasoning_open |-> FALSE]

\* response.chunk() yields the next chunk, of any length.
ReadChunk ==
    /\ f_pc = "call"
    /\ \E n \in 1..(Len(f_in) - f_out.pos) :
        \E chunk \in {SubSeq(f_in, f_out.pos + 1, f_out.pos + n)} :
            f_out' = AfterChunk(f_out, chunk, SplitLines(f_out.buffer \o chunk, <<>>))
    /\ UNCHANGED <<f_pc, f_in, db, loopVars, retryVars, parVars, streamVars>>

\* response.chunk() fails: the call returns the error.
ChunkError ==
    /\ f_pc = "call"
    /\ f_out.pos < Len(f_in)
    /\ f_pc' = "failed"
    /\ UNCHANGED <<f_in, f_out, db, loopVars, retryVars, parVars, streamVars>>

\* The body has ended (lines 2772-2777).
EndOfStream ==
    /\ f_pc = "call"
    /\ f_out.pos = Len(f_in)
    /\ f_out' = [f_out EXCEPT !.output = IF f_out.reasoning_open
                                         THEN f_out.output \o <<"</think>">>
                                         ELSE f_out.output,
                              !.reasoning_open = FALSE]
    /\ f_pc' = "done"
    /\ UNCHANGED <<f_in, db, loopVars, retryVars, parVars, streamVars>>

NextSse == ReadChunk \/ ChunkError \/ EndOfStream

SpecSse == InitSse /\ [][NextSse]_vars

\* ─── The agent loop ───

AddMsg(m, kind) ==
    [k \in DOMAIN m \cup {kind} |->
        IF k \in DOMAIN m THEN m[k] + (IF k = kind THEN 1 ELSE 0) ELSE 1]

InsufficientText ==
    "i don't have enough cross-checked evidence to answer confidently."
UnstableSummaryText ==
    "i gathered evidence but could not produce a stable final summary."
PartialEvidenceText ==
    "i checked your activity and found partial evidence, but not enough for a fully confident answer."

\* NextPc without the upper end of the range.
NextPc_unbounded(t) == "thinking"

\* for turn in 0..MAX_TURNS: where the query goes after its t-th iteration.
NextPc(t) == IF t >= MAX_TURNS THEN "synth" ELSE "thinking"

\* must_force_validation that never asks for a search.
must_force_validation_never(must_validate, log, runs) == FALSE

\* The test in front of the first forced search.
must_force_validation(must_validate, log, runs) ==
    must_validate /\ log = <<>> /\ runs < 2

\* What the model's parsed responses may be.
FinalAnswers == { <<"you used code today">>, <<"you texted sam">>,
                  <<"you spoke with sam on telegram">>,
                  <<"<|tool_call_begin|>", "done">> }

ScopeCall ==
    [tool |-> "resolve_query_scope",
     args |-> [json |-> "object", suggested_scope |-> "all_time",
               reason |-> "need more history"],
     reasoning |-> ""]

CoarseCalls ==
    { [tool |-> "get_recent_activities", args |-> EmptyObject, reasoning |-> ""],
      [tool |-> "get_recent_file_changes", args |-> [json |-> "object", limit |-> 5],
       reasoning |-> ""],
      [tool |-> "search_ocr", args |-> EmptyObject, reasoning |-> ""],
      [tool |-> "parallel_search",
       args |-> [json |-> "object",
                 calls |-> << [tool |-> "resolve_query_scope", args |-> ScopeCall.args],
                              [tool |-> "get_recent_ocr", args |-> EmptyObject] >>],
       reasoning |-> ""],
      ScopeCall }

RichCalls ==
    { [tool |-> "get_recent_activities", args |-> JsonNull, reasoning |-> ""],
      [tool |-> "get_recent_activities",
       args |-> [json |-> "object", hours |-> 200, start_ts |-> 0, end_ts |-> Now],
       reasoning |-> ""],
      [tool |-> "query_activities",
       args |-> [json |-> "object", query |-> Sql("select", "rows", 0, Now)],
       reasoning |-> ""],
      [tool |-> "query_activities",
       args |-> [json |-> "object", query |-> Sql("replace", "rows", 0, Now)],
       reasoning |-> ""],
      [tool |-> "query_activities",
       args |-> [json |-> "object", query |-> Sql("delete", "rows", 0, Now)],
       reasoning |-> ""],
      [tool |-> "get_usage_stats",
       args |-> [json |-> "object", start_time_iso |-> to_rfc3339(0),
                 end_time_iso |-> to_rfc3339(Now)],
       reasoning |-> ""],
      [tool |-> "get_usage_stats", args |-> JsonNull, reasoning |-> ""],
      [tool |-> "search_ocr",
       args |-> [json |-> "object", keyword |-> <<"sam", "says">>, limit |-> 5],
       reasoning |-> ""],
      [tool |-> "parallel_search",
       args |-> [json |-> "object",
                 calls |-> << [tool |-> "get_recent_ocr", args |-> JsonNull] >>],
       reasoning |-> ""] }

Init ==
    /\ RetryIdle
    /\ ParIdle
    /\ StreamIdle
    /\ FnIdle
    /\ pc = "start"
    /\ user_query \in Queries
    /\ resolved_scope = resolve_time_scope("")
    /\ db = SampleDb
    /\ steps = <<>>
    /\ all_activities = <<>>
    /\ messages = NoMessages
    /\ turn = 0
    /\ final_without_evidence_attempts = 0
    /\ forced_parallel_runs = 0
    /\ result = NoResult
    /\ read_ts = {}
    /\ llm_calls = 0
    /\ tool_runs = 0
    /\ settings_api_key \in {"", "sk-key"}
    /\ env_api_key = <<>>
    /\ effects = {}
    /\ evidence_digest = <<>>

Finish(res) ==
    /\ pc' = "done"
    /\ result' = res

\* utils/config.rs: str::trim on the key texts of the model.
Trim(text) ==
    CASE text = "  " -> ""
      [] text = " sk-key " -> "sk-key"
      [] OTHER -> text

api_key_from_env(env) ==
    IF env # <<>> /\ Trim(env[1]) # "" THEN <<Trim(env[1])>> ELSE <<>>

resolve_api_key(explicit_key, env) ==
    IF Trim(explicit_key) # "" THEN Trim(explicit_key)
    ELSE IF api_key_from_env(env) # <<>> THEN api_key_from_env(env)[1]
    ELSE ""

\* The key test without the test.
api_key_missing_never(api_key) == FALSE

\* Line 269: api_key.is_empty().
api_key_missing(api_key) == api_key = ""

\* What the pipeline and a batch return when the store refuses a statement.
PipelineFailed(db0) ==
    [ok |-> FALSE, steps |-> <<>>, refs |-> <<>>, digest |-> <<>>, read |-> {}, db |-> db0]

\* Lines 266-376: everything before the first turn.
Start(scopes) ==
    /\ pc = "start"
    /\ \E time_scope \in scopes, store_ok \in BOOLEAN :
      \E api_key \in {resolve_api_key(settings_api_key, env_api_key)},
         scope \in {resolve_time_scope(time_scope)},
         intent \in {detect_query_intent(user_query)},
         m0 \in {AddMsg(AddMsg(NoMessages, "system"), "query")} :
            IF api_key_missing(api_key)
            THEN /\ Finish(ErrResult("AI is disabled or API key is missing"))
                 /\ UNCHANGED <<resolved_scope, steps, all_activities, messages, db, read_ts,
                                effects, evidence_digest>>
            ELSE /\ resolved_scope' = scope
                 /\ result' = NoResult
                 /\ pc' = "thinking"
                 /\ IF should_use_long_range_pipeline(user_query, scope, intent)
                    THEN \E r \in {IF store_ok
                                   THEN run_long_range_summary_pipeline(db, scope, intent,
                                                                        user_query)
                                   ELSE PipelineFailed(db)} :
                           \E merged \in {dedupe_activities(r.refs)} :
                             /\ db' = r.db
                             /\ read_ts' = read_ts \cup r.read
                             /\ effects' = effects
                                              \cup {"status event", "pipeline run",
                                                    "store opened", "tool executed"}
                                              \cup (IF r.ok THEN {} ELSE {"tool error"})
                             /\ IF r.ok
                                THEN /\ steps' = r.steps
                                     /\ all_activities' =
                                           IF r.refs = <<>> THEN <<>>
                                           ELSE IF intent.wants_music THEN merged
                                           ELSE RetainNonMedia(merged)
                                     /\ messages' = AddMsg(m0, "long-range evidence")
                                     /\ evidence_digest' =
                                           truncate_for_token_limit(r.digest, 3500)
                                ELSE /\ steps' = <<>>
                                     /\ all_activities' = <<>>
                                     /\ messages' = m0
                                     /\ UNCHANGED evidence_digest
                    ELSE IF intent.broad_summary
                    THEN \E prefetch_args \in {build_prefetch_parallel_args(scope, intent)} :
                           \E r \in {IF store_ok
                                     THEN execute_parallel_search(db, prefetch_args, scope,
                                                                  user_query)
                                     ELSE Err("SQL Error", db)} :
                             /\ db' = r.db
                             /\ read_ts' = read_ts \cup r.read
                             /\ effects' = effects \cup {"store opened", "tool executed"}
                                              \cup (IF r.ok THEN {} ELSE {"tool error"})
                             /\ UNCHANGED evidence_digest
                             /\ IF r.ok
                                THEN /\ steps' =
                                          <<AgentStep("parallel_search", prefetch_args,
                                                truncate_for_token_limit(r.output, 4000),
                                                "Prefetch evidence for broad multi-source summary")>>
                                     /\ all_activities' = r.activities
                                     /\ messages' = AddMsg(m0, "prefetched evidence")
                                ELSE /\ steps' = <<>>
                                     /\ all_activities' = <<>>
                                     /\ messages' = m0
                    ELSE /\ steps' = <<>>
                         /\ all_activities' = <<>>
                         /\ messages' = m0
                         /\ UNCHANGED <<db, read_ts, effects, evidence_digest>>
    /\ UNCHANGED <<user_query, turn, final_without_evidence_attempts, forced_parallel_runs,
                   llm_calls, tool_runs, settings_api_key, env_api_key, retryVars, parVars,
                   streamVars, fnVars>>

\* ForcedSearch that does not count its execution.
ForcedSearch_uncounted(reasoning, note) ==
    \E forced_args \in {build_forced_validation_parallel_args(
                            resolved_scope, detect_query_intent(user_query), user_query)} :
      \E r \in {execute_parallel_search(db, forced_args, resolved_scope, user_query)} :
        /\ db' = r.db
        /\ read_ts' = read_ts \cup r.read
        /\ effects' = effects \cup {"status event", "model call", "store opened",
                                    "tool executed"}
                         \cup (IF r.ok THEN {} ELSE {"tool error"})
        /\ IF ~r.ok
           THEN /\ Finish(ErrResult(r.err))
                /\ UNCHANGED <<steps, all_activities, messages, forced_parallel_runs>>
           ELSE /\ forced_parallel_runs' = forced_parallel_runs
                /\ all_activities' = IF r.activities = <<>> THEN all_activities
                                     ELSE dedupe_activities(all_activities \o r.activities)
                /\ steps' = Append(steps,
                                   AgentStep("parallel_search", forced_args,
                                             truncate_for_token_limit(r.output, 8000),
                                             reasoning))
                /\ messages' = AddMsg(AddMsg(messages, "assistant"), note)
                /\ pc' = NextPc(turn + 1)
                /\ UNCHANGED result

\* A forced parallel_search of the gate (lines 426-457 and 487-518).
ForcedSearch(reasoning, note) ==
    \E forced_args \in {build_forced_validation_parallel_args(
                            resolved_scope, detect_query_intent(user_query), user_query)} :
      \E r \in {execute_parallel_search(db, forced_args, resolved_scope, user_query)} :
        /\ db' = r.db
        /\ read_ts' = read_ts \cup r.read
        /\ effects' = effects \cup {"status event", "model call", "store opened",
                                    "tool executed"}
                         \cup (IF r.ok THEN {} ELSE {"tool error"})
        /\ IF ~r.ok
           THEN /\ Finish(ErrResult(r.err))
                /\ UNCHANGED <<steps, all_activities, messages, forced_parallel_runs>>
           ELSE /\ forced_parallel_runs' = forced_parallel_runs + 1
                /\ all_activities' = IF r.activities = <<>> THEN all_activities
                                     ELSE dedupe_activities(all_activities \o r.activities)
                /\ steps' = Append(steps,
                                   AgentStep("parallel_search", forced_args,
                                             truncate_for_token_limit(r.output, 8000),
                                             reasoning))
                /\ messages' = AddMsg(AddMsg(messages, "assistant"), note)
                /\ pc' = NextPc(turn + 1)
                /\ UNCHANGED result

Reject(note) ==
    /\ messages' = AddMsg(AddMsg(messages, "assistant"), note)
    /\ pc' = NextPc(turn + 1)
    /\ effects' = effects \cup {"status event", "model call"}
    /\ UNCHANGED <<result, steps, all_activities, forced_parallel_runs, db, read_ts>>

Return(answer) ==
    /\ Finish(OkResult(answer))
    /\ effects' = effects \cup {"status event", "model call"}
    /\ UNCHANGED <<steps, all_activities, messages, forced_parallel_runs, db, read_ts>>

\* One turn whose response parses as a final answer (lines 419-549).
FinalAnswerTurn ==
    /\ pc = "thinking"
    /\ \E answer \in FinalAnswers :
      \E normalized \in {scrub_unsupported_communication_claims(
                             normalize_final_answer_hardened(
                                 SeqFilterOut(strip_internal_stream_markup(answer),
                                              {"<think>", "</think>"})),
                             user_query, steps)},
         must_validate_with_tools \in {requires_evidence_for_query(user_query)},
         weak \in {~has_minimum_evidence_for_query(user_query, steps)},
         attempts \in {final_without_evidence_attempts + 1} :
            IF must_force_validation(must_validate_with_tools, steps, forced_parallel_runs)
            THEN /\ ForcedSearch("Forced evidence validation before final answer",
                                 "forced evidence")
                 /\ UNCHANGED final_without_evidence_attempts
            ELSE IF contains_internal_tool_markup(normalized) /\ turn + 1 < MAX_TURNS
            THEN /\ Reject("leaked markup")
                 /\ UNCHANGED final_without_evidence_attempts
            ELSE IF is_complex_query(user_query) /\ Len(steps) < 5 /\ turn + 1 < MAX_TURNS
            THEN /\ Reject("make another tool call")
                 /\ UNCHANGED final_without_evidence_attempts
            ELSE IF weak
            THEN /\ final_without_evidence_attempts' = attempts
                 /\ IF must_validate_with_tools /\ attempts >= 2 /\ forced_parallel_runs < 2
                    THEN ForcedSearch(
                             "Forced cross-tool evidence after weak finalization attempt",
                             "not sufficiently evidenced")
                    ELSE IF turn + 1 < MAX_TURNS
                    THEN Reject("do not finalize yet")
                    ELSE Return([src |-> "insufficient", text |-> <<InsufficientText>>,
                                 marker |-> build_insufficient_evidence_action_marker(
                                                user_query, resolved_scope)])
            ELSE /\ Return([src |-> "final", text |-> normalized])
                 /\ UNCHANGED final_without_evidence_attempts
    /\ turn' = turn + 1
    /\ llm_calls' = llm_calls + 1
    /\ UNCHANGED <<user_query, resolved_scope, tool_runs, settings_api_key, env_api_key,
                   evidence_digest, retryVars, parVars, streamVars, fnVars>>

\* One turn whose response parses as a tool call (lines 550-659).
ToolCallTurn(calls) ==
    /\ pc = "thinking"
    /\ tool_runs < MaxToolCalls
    /\ \E call \in calls :
      \E tool \in {call.tool}, args \in {call.args} :
            IF tool = "resolve_query_scope"
            THEN \E suggested_scope \in {IF Has(args, "suggested_scope")
                                         THEN args.suggested_scope ELSE "last_7_days"},
                    reason \in {IF Has(args, "reason") THEN args.reason
                                ELSE "your query requires a wider search range."},
                    enable_sources \in {IF Has(args, "enable_sources")
                                        THEN args.enable_sources ELSE <<>>} :
                     /\ steps' = Append(steps,
                                     AgentStep("resolve_query_scope", args,
                                               <<"requesting scope change to", suggested_scope>>
                                                   \o enable_sources,
                                               call.reasoning))
                     /\ Finish(OkResult(
                            [src |-> "confirm",
                             text |-> <<"i can answer this more accurately after your confirmation.">>,
                             marker |-> [kind |-> "confirm_scope_or_sources",
                                         reason |-> reason,
                                         suggested_time_range |-> suggested_scope,
                                         enable_sources |-> enable_sources,
                                         retry_message |-> user_query]]))
                     /\ effects' = effects \cup {"status event", "model call"}
                     /\ UNCHANGED <<all_activities, messages, db, read_ts, tool_runs>>
            ELSE \E enforced_args \in {enforce_tool_args_with_scope(tool, args, resolved_scope,
                                                                    user_query)} :
                  \E r \in {IF tool = "parallel_search"
                            THEN execute_parallel_search(db, enforced_args, resolved_scope,
                                                         user_query) @@ [attempts |-> 1]
                            ELSE execute_tool_with_retries(db, tool, enforced_args,
                                                           MAX_TOOL_RETRY_LOOPS)} :
                   \E merged \in {dedupe_activities(
                                     all_activities
                                         \o transform_activities_for_frontend(tool,
                                                                              r.activities))} :
                     /\ db' = r.db
                     /\ read_ts' = read_ts \cup r.read
                     /\ tool_runs' = tool_runs + 1
                     /\ effects' = effects \cup {"status event", "model call",
                                                 "store opened", "tool executed"}
                                      \cup (IF r.ok THEN {} ELSE {"tool error"})
                     /\ IF ~r.ok
                        THEN /\ Finish(ErrResult(r.err))
                             /\ messages' = AddMsg(messages, "assistant")
                             /\ UNCHANGED <<steps, all_activities>>
                        ELSE /\ all_activities' =
                                   IF detect_query_intent(user_query).wants_music THEN merged
                                   ELSE RetainNonMedia(merged)
                             /\ steps' = Append(steps,
                                            AgentStep(tool, enforced_args,
                                                truncate_for_token_limit(
                                                    RetryNote(r.attempts, r.output), 10000),
                                                call.reasoning))
                             /\ messages' = AddMsg(AddMsg(messages, "assistant"), "tool output")
                             /\ pc' = NextPc(turn + 1)
                             /\ UNCHANGED result
    /\ turn' = turn + 1
    /\ llm_calls' = llm_calls + 1
    /\ UNCHANGED <<user_query, resolved_scope, final_without_evidence_attempts,
                   forced_parallel_runs, settings_api_key, env_api_key, evidence_digest,
                   retryVars, parVars, streamVars, fnVars>>

\* One turn whose streamed call fails (line 411).
LlmError ==
    /\ pc = "thinking"
    /\ Finish(ErrResult("LLM API Error"))
    /\ turn' = turn + 1
    /\ llm_calls' = llm_calls + 1
    /\ effects' = effects \cup {"status event", "model call", "model call failed"}
    /\ UNCHANGED <<user_query, resolved_scope, steps, all_activities, messages,
                   final_without_evidence_attempts, forced_parallel_runs, db, read_ts,
                   tool_runs, settings_api_key, env_api_key, evidence_digest, retryVars,
                   parVars, streamVars, fnVars>>

\* synthesize_answer_from_evidence after the last turn (lines 663-673).
SynthesisOutcomes ==
    { [kind |-> "error"], [kind |-> "tool call"] }
        \cup { [kind |-> "text", text |-> t] : t \in FinalAnswers }

synthesize_answer_from_evidence(out, q, log) ==
    CASE out.kind = "error" -> [ok |-> FALSE, answer |-> <<>>]
      [] out.kind = "tool call" -> [ok |-> TRUE, answer |-> <<UnstableSummaryText>>]
      [] OTHER ->
            [ok |-> TRUE,
             answer |-> scrub_unsupported_communication_claims(
                            normalize_final_answer_hardened(
                                SeqFilterOut(strip_internal_stream_markup(out.text),
                                             {"<think>", "</think>"})), q, log)]

Synthesize ==
    /\ pc = "synth"
    /\ \E out \in SynthesisOutcomes :
      \E r \in {synthesize_answer_from_evidence(out, user_query, steps)} :
            /\ Finish(OkResult(
                   IF ~r.ok THEN [src |-> "fallback", text |-> <<PartialEvidenceText>>]
                   ELSE IF out.kind = "tool call" THEN [src |-> "unstable", text |-> r.answer]
                   ELSE [src |-> "synthesis", text |-> r.answer]))
            /\ effects' = effects \cup {"status event", "model call"}
                             \cup (IF r.ok THEN {} ELSE {"model call failed"})
    /\ llm_calls' = llm_calls + 1
    /\ UNCHANGED <<user_query, resolved_scope, steps, all_activities, messages, turn,
                   final_without_evidence_attempts, forced_parallel_runs, db, read_ts,
                   tool_runs, settings_api_key, env_api_key, evidence_digest, retryVars,
                   parVars, streamVars, fnVars>>

StartNarrow == Start({"", "yesterday"})
StartAny == Start({"", "yesterday", "all_time"})
CoarseToolCallTurn == ToolCallTurn(CoarseCalls)
RichToolCallTurn == ToolCallTurn(RichCalls)

Next == StartNarrow \/ FinalAnswerTurn \/ CoarseToolCallTurn \/ LlmError \/ Synthesize

Spec == Init /\ [][Next]_vars

\* The agent loop started with every kind of key: in the settings and in the
\* environment, absent, blank and set.
InitKey ==
    /\ RetryIdle
    /\ ParIdle
    /\ StreamIdle
    /\ FnIdle
    /\ pc = "start"
    /\ user_query \in {"hi", "everything today", "my crush"}
    /\ resolved_scope = resolve_time_scope("")
    /\ db = SampleDb
    /\ steps = <<>>
    /\ all_activities = <<>>
    /\ messages = NoMessages
    /\ turn = 0
    /\ final_without_evidence_attempts = 0
    /\ forced_parallel_runs = 0
    /\ result = NoResult
    /\ read_ts = {}
    /\ llm_calls = 0
    /\ tool_runs = 0
    /\ settings_api_key \in {"", "  ", "sk-key", " sk-key "}
    /\ env_api_key \in {<<>>, <<"  ">>, <<"env-key">>}
    /\ effects = {}
    /\ evidence_digest = <<>>

SpecKey == InitKey /\ [][Next]_vars

NextTool == StartAny \/ FinalAnswerTurn \/ RichToolCallTurn \/ LlmError \/ Synthesize

SpecTool == Init /\ [][NextTool]_vars

\* The agent loop over the store with the longer history, asked for a wide
\* scope.
HistoryQueries == {"who is my crush", "summary of my code", "recap of chat and music",
                   "summary of code chat music"}

InitHistory ==
    /\ RetryIdle
    /\ ParIdle
    /\ StreamIdle
    /\ FnIdle
    /\ pc = "start"
    /\ user_query \in HistoryQueries
    /\ resolved_scope = resolve_time_scope("")
    /\ db = LongHistoryDb
    /\ steps = <<>>
    /\ all_activities = <<>>
    /\ messages = NoMessages
    /\ turn = 0
    /\ final_without_evidence_attempts = 0
    /\ forced_parallel_runs = 0
    /\ result = NoResult
    /\ read_ts = {}
    /\ llm_calls = 0
    /\ tool_runs = 0
    /\ settings_api_key = "sk-key"
    /\ env_api_key = <<>>
    /\ effects = {}
    /\ evidence_digest = <<>>

StartWide == Start({"this_year", "all_time"})

NextHistory == StartWide \/ FinalAnswerTurn \/ CoarseToolCallTurn \/ LlmError \/ Synthesize

SpecHistory == InitHistory /\ [][NextHistory]_vars

\* ─── Claims on the agent loop (Spec, SpecTool, SpecKey, SpecHistory) ───

IsDataStep(step) == step.tool_name \notin {"parallel_search", "resolve_query_scope"}

\* C1: every step of the log whose tool is neither parallel_search nor
\* resolve_query_scope carries start_ts and end_ts equal to the bounds of the
\* scope resolved at query start, whatever args the model emitted.
C1_StepsCarryScope ==
    \A i \in DOMAIN steps :
        IsDataStep(steps[i]) =>
            /\ Has(steps[i].tool_args, "start_ts")
            /\ Has(steps[i].tool_args, "end_ts")
            /\ steps[i].tool_args.start_ts = resolved_scope.start_ts
            /\ steps[i].tool_args.end_ts = resolved_scope.end_ts

\* C2: every record a data tool reads has its timestamp inside the resolved
\* scope; a window proposed by the model never replaces or widens it.
C2_ReadsInsideScope == \A t \in read_ts : InScope(resolved_scope, t)

C4_NoAnswerWithoutSteps ==
    /\ []((result.kind = "ok" /\ ~is_smalltalk_query(user_query)) => Len(steps) >= 1)
    /\ [][(/\ result.kind # "ok"
           /\ result'.kind = "ok"
           /\ result'.answer.src = "final"
           /\ ~is_smalltalk_query(user_query)) => steps # <<>>]_vars

C4_Witness ==
    /\ pc = "done"
    /\ result.kind = "ok"
    /\ result.answer.src = "final"
    /\ ~is_smalltalk_query(user_query)
    /\ Len(steps) = 1
    /\ steps[1].reasoning = "Forced evidence validation before final answer"

\* C5: when the turn budget is used up and the minimum-evidence predicate is
\* false for the step log, no model-generated answer is returned.
C5_NoModelAnswerOnWeakEvidence ==
    (/\ pc = "done"
     /\ result.kind = "ok"
     /\ turn = MAX_TURNS
     /\ ~has_minimum_evidence_for_query(user_query, steps))
        => result.answer.src \notin {"final", "synthesis"}

InvokesScopeNegotiation(step) ==
    \/ step.tool_name = "resolve_query_scope"
    \/ /\ step.tool_name = "parallel_search"
       /\ Has(step.tool_args, "calls")
       /\ \E j \in DOMAIN step.tool_args.calls :
              CallTool(step.tool_args.calls[j]) = "resolve_query_scope"

\* C6: whenever the model invokes resolve_query_scope, directly or as a
\* sub-call of parallel_search, the loop has halted with the answer that
\* embeds the confirm_scope_or_sources payload and with no observation added.
C6_ScopeNegotiationHalts ==
    \A i \in DOMAIN steps :
        InvokesScopeNegotiation(steps[i]) =>
            /\ pc = "done"
            /\ result.kind = "ok"
            /\ result.answer.src = "confirm"
            /\ i = Len(steps)

\* C7: a query makes at most 20 streamed model turns and then at most one
\* synthesis call; every step of the loop (rejection, forced search, tool
\* call) uses one turn; once the 20 turns are used no tool runs and the step
\* log is not extended.
C7_TurnBudget ==
    /\ [](/\ turn <= MAX_TURNS
          /\ llm_calls <= turn + 1
          /\ (llm_calls = turn + 1 => (turn = MAX_TURNS /\ pc = "done"))
          /\ (pc = "synth" => turn = MAX_TURNS))
    /\ [][/\ pc = "thinking" => (turn' = turn + 1 /\ llm_calls' = llm_calls + 1)
          /\ turn = MAX_TURNS =>
                (/\ steps' = steps /\ db' = db /\ read_ts' = read_ts
                 /\ tool_runs' = tool_runs /\ pc' = "done")]_vars

C7_Witness ==
    /\ pc = "done"
    /\ turn = MAX_TURNS
    /\ llm_calls = MAX_TURNS + 1
    /\ result.kind = "ok"
    /\ result.answer.src = "synthesis"

\* C12: in every AgentResult returned, activities_referenced (all_activities
\* at the return) holds no two records with the same (app, title, time) key,
\* whichever path added them.
C12_NoDuplicateRecords ==
    (pc = "done" /\ result.kind = "ok") =>
        \A i, j \in DOMAIN all_activities :
            i # j => ActivityKey(all_activities[i]) # ActivityKey(all_activities[j])

\* C13: once a tool execution has raised an error, in the loop, in a batch,
\* in the prefetch or in the pipeline, the query has ended and its result is
\* that failure.
C13_ToolErrorsPropagate ==
    "tool error" \in effects => (pc = "done" /\ result.kind = "err")

\* C14: once a streamed model call has failed, be it a turn's call or the
\* synthesis call, the query has ended (so no call follows the failed one)
\* and its result is an error, not an answer.
C14_ModelErrorsAreFatal ==
    "model call failed" \in effects => (pc = "done" /\ result.kind = "err")

\* The query ended at once with the configuration error and did nothing else.
EndedWithConfigurationError ==
    /\ pc = "done"
    /\ result = ErrResult("AI is disabled or API key is missing")
    /\ llm_calls = 0
    /\ tool_runs = 0
    /\ effects = {}
    /\ steps = <<>>
    /\ read_ts = {}
    /\ db = SampleDb

\* C15: when the api_key of the settings is empty, the query returns a
\* configuration error immediately: no model call, no tool execution, no
\* opening of the store, no event.
C15_EmptySettingsKeyIsError ==
    (settings_api_key = "" /\ pc # "start") => EndedWithConfigurationError

\* C15 as amended: the same when the api_key of the settings is empty or
\* blank and the NVIDIA_API_KEY environment variable is unset or blank.
C15_NoUsableKeyIsError ==
    (/\ settings_api_key \in {"", "  "}
     /\ env_api_key \in {<<>>, <<"  ">>}
     /\ pc # "start") => EndedWithConfigurationError

C15_Witness ==
    /\ settings_api_key = "  "
    /\ env_api_key = <<"  ">>
    /\ pc = "done"
    /\ result.kind = "err"

WideScope(scope) ==
    \/ scope.id \in {"this_year", "all_time"}
    \/ (scope.end_ts - scope.start_ts) \div DaySecs >= 90

\* C17: the long-range pipeline runs for every query whose range is wide (a
\* scope of 90 days or more, this_year or all_time, or the yearly recap
\* "summarize my whole year"), and only for a wide scope or a query that
\* asks for a summary, overview or recap.
C17_PipelineIffWideRange ==
    (pc # "start" /\ settings_api_key # "") =>
        /\ (WideScope(resolved_scope) \/ user_query = "summarize my whole year")
              => "pipeline run" \in effects
        /\ "pipeline run" \in effects
              => \/ WideScope(resolved_scope)
                 \/ QueryContainsAny(user_query,
                                     {"summary", "overview", "recap", "what did i do",
                                      "this year", "yearly", "annual"})

StepTools(log) == [i \in DOMAIN log |-> log[i].tool_name]

\* The tools of the entries of a digest ("<tool> -> <text>"), in order.
DigestEntries(digest) ==
    SelectSeq([i \in DOMAIN digest |->
                  IF i < Len(digest) /\ digest[i + 1] = "->" THEN digest[i] ELSE ""],
              LAMBDA phrase : phrase # "")

\* The conditional slices of a log after its four fixed steps: file, OCR and
\* music slices, each at most once, in that order.
SlicesInOrder(tools) ==
    tools \in { <<>>, <<"get_recent_file_changes">>, <<"get_recent_ocr">>,
                <<"get_music_history">>,
                <<"get_recent_file_changes", "get_recent_ocr">>,
                <<"get_recent_file_changes", "get_music_history">>,
                <<"get_recent_ocr", "get_music_history">>,
                <<"get_recent_file_changes", "get_recent_ocr", "get_music_history">> }

PipelineSucceeded ==
    /\ pc = "thinking"
    /\ turn = 0
    /\ "pipeline run" \in effects
    /\ "tool error" \notin effects

\* C18: when the long-range pipeline has run and its tool calls succeeded,
\* then before the first model turn the step log holds a get_usage_stats
\* step, the monthly-by-category rollup, the top-apps rollup and a
\* get_recent_activities slice, followed by the conditional file, OCR and
\* music slices in that order, and the digest put into the model context has
\* one entry per step in the same order.
C18_PipelineLogAndDigest ==
    PipelineSucceeded =>
        /\ Len(steps) >= 4
        /\ SubSeq(StepTools(steps), 1, 4) =
              <<"get_usage_stats", "query_activities", "query_activities",
                "get_recent_activities">>
        /\ steps[2].tool_args.query.shape = "monthly_category"
        /\ steps[3].tool_args.query.shape = "top_apps"
        /\ SlicesInOrder(SubSeq(StepTools(steps), 5, Len(steps)))
        /\ DigestEntries(evidence_digest) = StepTools(steps)

\* What a tool result shows of the store: a phrase of a stored row, or a row
\* of a JSON result.
StorePhrases(store) ==
    UNION {{r.app_name, r.window_title, r.media_title} : r \in store.activities}
      \cup UNION {{r.screen_text[i] : i \in DOMAIN r.screen_text} : r \in store.activities}
      \cup UNION {{r.path, r.project_root} : r \in store.code_file_events}
JsonRowOpeners ==
    {"{\"app\":\"", "{\"app_name\":\"", "{\"category_id\":0,\"events\":0,\"month\":\""}
StepReturnedData(step) ==
    \E i \in DOMAIN step.tool_result :
        step.tool_result[i] \in (StorePhrases(db) \ {""}) \cup JsonRowOpeners

AcceptedFinalAnswer ==
    /\ pc = "done"
    /\ result.kind = "ok"
    /\ result.answer.src = "final"

\* C19: a final answer written by the model for a non-small-talk query is
\* accepted only when at least one step of the log is a tool result that
\* returned data; a step whose tool found nothing (an empty list, a
\* "no ... found" message) is no evidence.
C19_AcceptedOnlyWithData ==
    (AcceptedFinalAnswer /\ ~is_smalltalk_query(user_query))
        => \E i \in DOMAIN steps : StepReturnedData(steps[i])

\* C20: a final answer written by the model for an identity or relationship
\* query is accepted only when the step log holds explicit chat evidence or
\* at least 2 corroborating non-chat signals, whether or not the query also
\* matches the multi-tool keywords.
C20_IdentityNeedsChatEvidence ==
    (AcceptedFinalAnswer /\ is_identity_or_romance_query(user_query))
        => \/ has_explicit_chat_evidence(steps)
           \/ has_non_chat_strong_identity_evidence(steps)

\* An answer written by the model: accepted in the loop or synthesized.
ModelWrittenAnswer ==
    /\ pc = "done"
    /\ result.kind = "ok"
    /\ result.answer.src \in {"final", "synthesis"}

AssertsCommunication(text) ==
    TextContainsAny(text, {"texted", "chatted", "messaged", "whatsapp", "telegram",
                           "instagram"})

\* C21: for an identity or relationship query whose step log holds no
\* chat-app evidence, every returned answer written by the model that asserts
\* communication ("texted", "chatted", "messaged" or the name of a chat app)
\* ends with the uncertainty caveat, be it accepted in the loop or
\* synthesized after the turn budget.
C21_CommunicationClaimsCarryCaveat ==
    (/\ ModelWrittenAnswer
     /\ is_identity_or_romance_query(user_query)
     /\ ~has_explicit_chat_evidence(steps)
     /\ AssertsCommunication(result.answer.text))
        => result.answer.text[Len(result.answer.text)] = UncertaintyCaveat

\* ─── Claims on resolve_time_scope (SpecScope) ───

ScopeIds == {"today", "yesterday", "last_3_days", "last_7_days", "last_30_days",
             "this_year", "all_time"}

\* The token is absent, empty, blank or not the id of a scope.
DefaultedToken(token) ==
    \/ token = <<>>
    \/ token[1] \in {"", "  ", "last week", "tomorrow"}

\* C22: scope resolution is total: an absent, empty, blank or unrecognised
\* token resolves to id "today" with end_ts at now and, when the local
\* conversion succeeds, start_ts at the local midnight of the day of now;
\* all_time starts at 0; start_ts <= end_ts for every token, also when the
\* local conversion fails and the fallback bounds are used.
C22_ScopeResolutionTotal ==
    f_pc = "done" =>
        /\ f_out.id \in ScopeIds
        /\ DefaultedToken(f_in.explicit_scope) =>
              /\ f_out.id = "today"
              /\ f_out.end_ts = f_in.now
              /\ f_in.single_ok => f_out.start_ts = f_in.now - (f_in.now % DaySecs)
        /\ f_out.id = "all_time" => f_out.start_ts = 0
        /\ f_out.start_ts <= f_out.end_ts

\* ─── Claims on the OCR filter (SpecOcr) ───

\* The four noise tests of the filter over the characters of a captured
\* string, with "at least 10 letters".
NoiseByRatios(chars) ==
    /\ chars # <<>>
    /\ \/ 100 * Len(SelectSeq(chars, IsSymbol)) > 35 * Len(chars)
       \/ 100 * Len(SelectSeq(chars, IsAlphabetic)) < 18 * Len(chars)
       \/ /\ Len(SelectSeq(chars, IsAlphabetic)) >= 10
          /\ 100 * Len(SelectSeq(chars, IsVowel)) < 6 * Len(SelectSeq(chars, IsAlphabetic))
       \/ 10 * Len(SelectSeq(chars, IsDigit)) > 7 * Len(chars)

\* C23: a captured string is discarded (comes back empty, so neither
\* search_ocr nor get_recent_ocr reports it) whenever over its characters
\* the symbol ratio is above 0.35, or the alphabetic ratio is below 0.18, or
\* it has at least 10 letters and a vowel ratio below 0.06, or the digit
\* ratio is above 0.7; so every string that is 60% symbols is discarded.
C23_NoiseIsDiscarded ==
    (f_pc = "done" /\ NoiseByRatios(f_in)) => f_out = <<>>

\* ─── Claims on event delivery (SpecStream) ───

\* C25: an emit that fails, of a status, token or completion event, changes
\* nothing but the feed: whatever was lost, the response accumulated so far
\* is the part of the model's output already streamed, the call ends only
\* when the whole output has been taken in, and until then a next step is
\* always possible.
C25_EmitFailuresChangeNothing ==
    /\ s_kind = "turn" => s_sniff \o s_rest = s_output
    /\ s_pc = "done" => s_rest = <<>>
    /\ s_pc \in {"status", "stream", "after"} => ENABLED NextStream

\* A turn ended after an emit of each kind had failed.
C25_Witness ==
    /\ s_pc = "done"
    /\ s_kind = "turn"
    /\ s_lost = {"status", "token", "done"}
    /\ s_sniff = s_output

\* ─── Claims on the forced searches (Spec) ───

ZeroEvidenceReasoning == "Forced evidence validation before final answer"
WeakFinalizationReasoning == "Forced cross-tool evidence after weak finalization attempt"
StepsWith(reasonings) == SelectSeq(steps, LAMBDA st : st.reasoning \in reasonings)

\* C26: in any run the gate executes at most 2 forced parallel_search calls
\* in total, the zero-evidence forcing at most once, and every forced
\* execution has exactly one step in the log, a parallel_search step.
C26_ForcedSearchesBounded ==
    /\ forced_parallel_runs <= 2
    /\ Len(StepsWith({ZeroEvidenceReasoning})) <= 1
    /\ Len(StepsWith({ZeroEvidenceReasoning, WeakFinalizationReasoning}))
          = forced_parallel_runs
    /\ \A i \in DOMAIN steps :
          steps[i].reasoning \in {ZeroEvidenceReasoning, WeakFinalizationReasoning}
              => steps[i].tool_name = "parallel_search"

\* Both kinds of forcing have happened in one run.
C26_Witness ==
    /\ forced_parallel_runs = 2
    /\ Len(StepsWith({ZeroEvidenceReasoning})) = 1
    /\ Len(StepsWith({WeakFinalizationReasoning})) = 1

\* ─── Claims on call_llm_stream (SpecSse) ───

\* The delta contents of the data lines of a body that precede "[DONE]".
RECURSIVE ContentsBeforeDone(_)
ContentsOfLine(line, rest) ==
    IF line = DoneLine THEN <<>>
    ELSE (IF Len(line) = 4 /\ line[1] = "data: " THEN ContentOf(line[3]) ELSE <<>>)
             \o ContentsBeforeDone(rest)
ContentsBeforeDone(lines) ==
    IF lines = <<>> THEN <<>>
    ELSE ContentsOfLine(SelectSeq(Head(lines), LAMBDA b : b # "\r"), Tail(lines))

\* C27: however the body is cut into network chunks, the response
\* accumulated by a call that succeeded is the in-order concatenation of the
\* delta contents of the data lines before "data: [DONE]", each once, and
\* nothing after it.
C27_ResponseIsContentsInOrder ==
    f_pc = "done" => f_out.output = ContentsBeforeDone(SplitLines(f_in, <<>>))

\* ─── Claims on the step log as an audit record (SpecTool) ───

\* The output of executing the tool of a step again with the arguments the
\* step records, against the same store and under the same scope.
Replayed(step) ==
    IF step.tool_name = "parallel_search"
    THEN execute_parallel_search(db, step.tool_args, resolved_scope, user_query).output
    ELSE execute_tool(db, step.tool_name, step.tool_args).output

\* The results a faithful step may hold for an output: the output cut to the
\* length of its kind of step, with or without the note on retries.
RecordingsOf(output) ==
    {truncate_for_token_limit(output, n) : n \in {4000, 8000, 10000}}
        \cup {truncate_for_token_limit(RetryNote(2, output), 10000)}

\* C29: every step of the log is a faithful record: its tool_result is the
\* output of executing tool_name with exactly the recorded tool_args, also
\* after the retry wrapper broadened the arguments, and for prefetch and
\* forced-validation steps.
C29_StepsAreFaithful ==
    db = SampleDb =>
        \A i \in DOMAIN steps :
            steps[i].tool_name # "resolve_query_scope"
                => steps[i].tool_result \in RecordingsOf(Replayed(steps[i]))

\* ─── Claims on the conversation context (SpecChat) ───

\* The rows of the session with something in them, oldest first.
NonEmptyOldestFirst(chat_messages) ==
    SelectSeq([i \in 1..Cardinality(chat_messages) |->
                  OrderDesc(chat_messages, "created_at")[Cardinality(chat_messages) + 1 - i]],
              LAMBDA row : ~IsBlank(row.content))

\* C30: the prior turns given to the model are the at most 12 most recent
\* non-empty messages of the session, oldest first, after the system prompt
\* and before the message that carries the current query.
C30_HistoryMostRecentOldestFirst ==
    f_pc = "done" =>
        /\ f_out.messages[1].role = "system"
        /\ f_out.messages[Len(f_out.messages)].content = <<"user query:", f_in.message>>
        /\ SubSeq(f_out.messages, 2, Len(f_out.messages) - 1)
              = AsPriorTurns(AsChatMessages(LastTwelve(NonEmptyOldestFirst(f_in.chat_messages))))

\* ─── Claims on the retry wrapper (SpecRetry) ───

LowSignalEntry(e) == e.ok /\ is_low_signal_result(r_tool, e.output, e.activities)

\* C8: the wrapper executes the tool at most 3 times; every execution before
\* the last one succeeded with a low-signal result; it returns the result of
\* the first execution that is not low-signal (or of the third), reports as
\* attempts used the number of executions made, and an error of any execution
\* ends the call with that error and no further execution.
C8_RetryWrapper ==
    /\ Len(r_log) <= 3
    /\ r_pc = "call" =>
          /\ r_ret = NoResult
          /\ Len(r_log) = r_attempt - 1
          /\ \A i \in 1..Len(r_log) : LowSignalEntry(r_log[i])
    /\ r_pc = "done" =>
          LET n == Len(r_log)
              last == r_log[n]
          IN  /\ n >= 1
              /\ \A i \in 1..(n - 1) : LowSignalEntry(r_log[i])
              /\ IF last.ok
                 THEN /\ r_ret.kind = "ok"
                      /\ r_ret.attempts = n
                      /\ r_ret.output = last.output
                      /\ r_ret.activities = last.activities
                      /\ (n = 3 \/ ~LowSignalEntry(last))
                 ELSE /\ r_ret.kind = "err"
                      /\ r_ret.err = last.err

\* A retry happened and the second execution gave the answer.
C8_Witness ==
    /\ r_pc = "done"
    /\ r_ret.kind = "ok"
    /\ r_ret.attempts = 2
    /\ r_log[2].activities # <<>>

\* The limit and lookback a tool runs with: its own default when absent.
ToolDefaultLimit(tool) == IF tool = "get_recent_file_changes" THEN 40 ELSE 100
EffectiveLimit(tool, args) == AsU64(args, "limit", ToolDefaultLimit(tool))
EffectiveHours(args) == AsU64(args, "hours", 24)

\* C9: when the first execution returned zero records and a retry followed,
\* the second execution runs with a limit and a lookback not below those of
\* the first (the tool's own defaults when absent), with limit <= 250 and,
\* without a fixed window, hours <= 168.
C9_NonDecreasing ==
    (Len(r_log) >= 2 /\ r_log[1].activities = <<>>) =>
        LET a1 == r_log[1].args
            a2 == r_log[2].args
        IN  /\ EffectiveLimit(r_tool, a2) >= EffectiveLimit(r_tool, a1)
            /\ EffectiveHours(a2) >= EffectiveHours(a1)
            /\ EffectiveLimit(r_tool, a2) <= 250
            /\ (~(HasI64(a1, "start_ts") /\ HasI64(a1, "end_ts"))
                   => EffectiveHours(a2) <= 168)

\* C10: for a call whose arguments carry start_ts and end_ts, every
\* execution of the wrapper runs with the start_ts, end_ts, scope_label and
\* hours of the first; only limit changes, and for search_ocr a multi-word
\* keyword becomes its first word from the second execution on.
SameButLimitAndKeyword(a1, ai, i) ==
    /\ DOMAIN ai \subseteq DOMAIN a1 \cup {"limit"}
    /\ \A k \in DOMAIN a1 : k \in DOMAIN ai
    /\ \A k \in DOMAIN a1 \ {"limit", "keyword"} : ai[k] = a1[k]
    /\ "keyword" \in DOMAIN a1 =>
          \/ ai.keyword = a1.keyword
          \/ /\ r_tool = "search_ocr"
             /\ i >= 2
             /\ Len(a1.keyword) > 1
             /\ ai.keyword = <<Head(a1.keyword)>>

C10_WindowKept ==
    r_log # <<>> =>
        LET a1 == r_log[1].args
        IN  (HasI64(a1, "start_ts") /\ HasI64(a1, "end_ts")) =>
               /\ \A i \in 1..Len(r_log) : SameButLimitAndKeyword(a1, r_log[i].args, i)
               /\ SameButLimitAndKeyword(a1, r_args, Len(r_log) + 1)

\* Three executions of a stamped search_ocr call whose keyword was narrowed.
C10_Witness ==
    /\ Len(r_log) = 3
    /\ r_tool = "search_ocr"
    /\ HasI64(r_log[1].args, "start_ts") /\ HasI64(r_log[1].args, "end_ts")
    /\ r_log[2].args.keyword # r_log[1].args.keyword
    /\ r_log[3].args.limit # r_log[2].args.limit

\* ─── Claims on the parallel dispatcher (SpecPar) ───

CallFails(call) == "tool" \notin DOMAIN call \/ call.tool = "parallel_search"

\* Some sub-call of the batch failed, or the batch has no sub-call.
BatchFailed ==
    \/ ~Has(p_args, "calls")
    \/ p_args.calls = <<>>
    \/ \E i \in DOMAIN p_args.calls : CallFails(p_args.calls[i])
    \/ \E i \in DOMAIN p_workers : p_workers[i].status \in {"err", "panicked"}

\* The summary entries and the records of the workers n+1.. in call order.
RECURSIVE SummaryFrom(_)
SummaryFrom(ws) ==
    IF ws = <<>> THEN <<>>
    ELSE <<"-", Head(ws).tool, AttemptsPhrase(Head(ws).attempt)>>
             \o truncate_for_token_limit(Head(ws).output, 500) \o SummaryFrom(Tail(ws))
RECURSIVE RecordsFrom(_)
RecordsFrom(ws) ==
    IF ws = <<>> THEN <<>>
    ELSE transform_activities_for_frontend(Head(ws).tool, Head(ws).activities)
             \o RecordsFrom(Tail(ws))

\* C11: under every interleaving of the workers a batch is all-or-nothing:
\* nothing is returned before the batch ends; if any sub-call failed (tool
\* error, panic, missing tool field, nested parallel_search, empty calls) the
\* batch returns an error that carries no summary and no records; otherwise
\* one worker ran per call and the summary and the records returned cover
\* every one of them, in call order.
C11_AllOrNothing ==
    /\ p_pc \in {"call", "spawn", "join"} => p_ret = NoResult
    /\ p_pc = "done" =>
          IF BatchFailed
          THEN p_ret.kind = "err" /\ DOMAIN p_ret = {"kind", "err"}
          ELSE /\ p_ret.kind = "ok"
               /\ Len(p_workers) = Len(p_args.calls)
               /\ \A i \in DOMAIN p_workers :
                      p_workers[i].tool = p_args.calls[i].tool /\ p_workers[i].status = "ok"
               /\ p_ret.output = <<"parallel search executed tool calls:">>
                                     \o SummaryFrom(p_workers)
               /\ p_ret.activities = RecordsFrom(p_workers)

\* The first worker was joined with records, then the second one failed: the
\* batch ends with an error although a partial result had been collected.
C11_Witness ==
    /\ p_pc = "done"
    /\ p_ret.kind = "err"
    /\ p_joined = 1
    /\ p_acts # <<>>
    /\ p_workers[2].status = "err"

\* C28: the summary and the record list of a batch that returned list the
\* sub-calls' outputs in the order of the calls array, whatever the order in
\* which the workers started, ran and finished: they are the summary and
\* the list obtained by running the calls one after the other in that order.
C28_ResultsInCallOrder ==
    (p_pc = "done" /\ p_ret.kind = "ok" /\ db \in {EmptyDb, SampleDb}) =>
        /\ p_ret.output =
              execute_parallel_search(db, p_args, resolved_scope, user_query).output
        /\ p_ret.activities =
              execute_parallel_search(db, p_args, resolved_scope, user_query).activities
        /\ \A i \in DOMAIN p_args.calls : p_workers[i].tool = p_args.calls[i].tool

\* A batch of two different tools returned, the records of the first call
\* in front of those of the second.
C28_Witness ==
    /\ p_pc = "done"
    /\ p_ret.kind = "ok"
    /\ Len(p_args.calls) = 2
    /\ p_args.calls[1].tool # p_args.calls[2].tool
    /\ p_workers[1].activities # <<>>
    /\ p_workers[2].activities # <<>>
    /\ p_ret.activities =
          transform_activities_for_frontend(p_workers[1].tool, p_workers[1].activities)
              \o transform_activities_for_frontend(p_workers[2].tool,
                                                   p_workers[2].activities)

\* The set of keys (app, title, time) of a list of referenced records.
KeysOf(acts) == {ActivityKey(acts[i]) : i \in DOMAIN acts}

StreamDelimiters ==
    {"<|tool_calls_section_begin|>", "<|tool_calls_section_end|>", "<|tool_call_begin|>",
     "<|tool_call_end|>", "<|tool_call_argument_begin|>"}

\* C16: however the output is cut into chunks, in the stream of a turn and in
\* the synthesis stream, nothing of a tool-call envelope reaches the token
\* feed and no chunk of the feed holds a model-internal delimiter.
C16_FeedIsClean ==
    /\ s_output \in ToolCallOutputs => s_feed = <<>>
    /\ \A i \in DOMAIN s_feed :
          \A j \in DOMAIN s_feed[i] : s_feed[i][j] \notin StreamDelimiters

====
